---- MODULE Spec2Model ----
(***************************************************************************)
(* Model of the distributed scheduling core of SuJi-backend:               *)
(*   DistributedCronService        (services/cron/distributed-cron.service) *)
(*   IngredientReactivationService (services/cron, the reactivation engine) *)
(* Every await on the Redis client is one step of the calling task, so the  *)
(* store operations of concurrent calls interleave as they do at run time.  *)
(***************************************************************************)
EXTENDS Integers, FiniteSets, Sequences, TLC

\* ------------------------------------------------------------ constants

\* lockTTL: default TTL of a job lock, in ms
lockTTL == 60000
\* TTL the engine passes to executeWithLock for its jobs, in ms
jobLockTTL == 120000
\* TTL of the leadership key, in ms
leaderTTL == 30000
\* TTL of an instance record, in ms
instanceTTL == 60000
\* period of the instance record's refresh interval, in ms
heartbeatInterval == 30000
\* ms of store time that pass in one Tick step: one refresh period
TimeUnit == heartbeatInterval
\* the ttlMs arguments callers pass: 1..MaxTtlUnits units of TimeUnit ms
MaxTtlUnits == 2

Inst == {"i1", "i2"}
\* async calls one instance has in flight at a time: two for the engine's
\* callbacks, one for a direct caller of the lock manager
Slot == {1, 2}
TaskId == Inst \X Slot
LockTasks == Inst \X {1}
Stores == {"s1"}
\* job names: `ingredient-reactivation:${store.id}` and the sweep's
JobNames == Stores \cup {"realtime"}
\* the job names direct callers use
LockNames == Stores
TTLs == {lockTTL} \cup {u * TimeUnit : u \in 1..MaxTtlUnits}
\* the rows of the stores table: Stores and one store that is in no lock name
StoreIds == Stores \cup {"s0"}
\* the rows of the ingredients table
IngId == {"a", "b"}
\* a disabledUntil lies at most MaxDue units of TimeUnit ms ahead
MaxDue == 1

None == "none"
lockKey(jobName) == <<"cron:lock", jobName>>
leaderKey == <<"cron:leader", "">>
instanceKey(id) == <<"cron:instances", id>>
Keys == {lockKey(n) : n \in JobNames} \cup {leaderKey} \cup {instanceKey(i) : i \in Inst}

VARIABLES
    redis,             \* the coordination store: key -> [val, ttl], val = None when absent
    task,              \* the async calls in flight, per instance and slot
    cronJobs,          \* per instance: the store ids with a timer in the cronJobs map
    realtimeCheckJob,  \* per instance: TRUE when the sweep timer exists
    polling,           \* per instance: TRUE once the leadership poll interval is set
    started,           \* per instance: TRUE once initialize() has been called
    fired,             \* per job: the instances whose timer has fired in the current cron tick
    ranBy,             \* per job: the instances that ran the body for the current cron tick
    heartbeat,         \* per instance: TRUE once registerInstance has set its refresh interval
    beat,              \* per instance: the refresh callback of the current 30 s period:
                       \* "due", "done" (pExpire answered), "missed" (nothing sent)
                       \* or "rejected" (pExpire threw)
    mode,              \* CRON_MODE: "distributed" or "leader"
    timers,            \* per instance: the timers created by cron.schedule and not stopped
    stores,            \* the stores table: id -> [isActive, ingredientReactivationTime, timezone]
    ingredients        \* the ingredients table: id -> [storeId, isAvailable, disabledUntil]

dataVars == <<timers, stores, ingredients>>
engineVars == <<cronJobs, realtimeCheckJob, polling, started, fired, heartbeat, beat,
                mode, dataVars>>
vars == <<redis, task, cronJobs, realtimeCheckJob, polling, started, fired, ranBy,
          heartbeat, beat, mode, timers, stores, ingredients>>

\* ------------------------------------------------------------ the store

Absent == [val |-> None, ttl |-> 0]

\* mutant: the NX option is dropped, so SET always answers OK
SetNXReplyWithoutNX(r, k) == "OK"

\* SET key value NX PX ttl: the reply
SetNXReply(r, k) == IF r[k].val = None THEN "OK" ELSE "null"
\* mutant: the NX option is dropped, so SET replaces the entry of another holder
SetNXOverwrites(r, k, v, ttl) == [r EXCEPT ![k] = [val |-> v, ttl |-> ttl]]

\* SET key value NX PX ttl: the store afterwards
SetNX(r, k, v, ttl) ==
    IF r[k].val = None THEN [r EXCEPT ![k] = [val |-> v, ttl |-> ttl]] ELSE r
\* SET key value PX ttl
SetPX(r, k, v, ttl) == [r EXCEPT ![k] = [val |-> v, ttl |-> ttl]]
\* GET key
Get(r, k) == r[k].val
\* PEXPIRE key ttl
PExpire(r, k, ttl) == IF r[k].val = None THEN r ELSE [r EXCEPT ![k].ttl = ttl]
\* DEL key
Del(r, k) == [r EXCEPT ![k] = Absent]
\* KEYS cron:instances:* , with the prefix removed
InstanceKeys(r) == {i \in Inst : r[instanceKey(i)].val # None}

\* the store after TimeUnit ms: every TTL runs down, expired keys vanish
Expired(r, k) == r[k].val # None /\ r[k].ttl <= TimeUnit
AfterTime(r) ==
    [k \in Keys |->
        IF r[k].val = None \/ r[k].ttl <= TimeUnit THEN Absent
        ELSE [r[k] EXCEPT !.ttl = r[k].ttl - TimeUnit]]

\* ------------------------------------------------------------ cron expressions

\* a time string is a sequence of characters; <<>> is a time that is not set
\* (undefined, null and "" are all falsy in getReactivationTime's test)
Digits == {"0", "2", "3", "6", "9"}
Chars == Digits \cup {":", "x", "-", " "}
\* the time strings drawn as inputs have at most MaxTimeLen characters
MaxTimeLen == 5
TimeStrings == UNION {[1..n -> Chars] : n \in 0..MaxTimeLen}

DigitValue(c) ==
    CASE c = "0" -> 0 [] c = "2" -> 2 [] c = "3" -> 3 [] c = "6" -> 6 [] c = "9" -> 9

\* time.split(":")
RECURSIVE Split(_)
Split(str) ==
    IF \A n \in 1..Len(str) : str[n] # ":" THEN <<str>>
    ELSE LET n == CHOOSE m \in 1..Len(str) :
                    str[m] = ":" /\ \A l \in 1..(m - 1) : str[l] # ":"
         IN  <<SubSeq(str, 1, n - 1)>> \o Split(SubSeq(str, n + 1, Len(str)))

NaN == [nan |-> TRUE, val |-> 0]
isNaN(x) == x.nan

RECURSIVE SkipWhiteSpace(_)
SkipWhiteSpace(str) ==
    IF str # <<>> /\ Head(str) = " " THEN SkipWhiteSpace(Tail(str)) ELSE str

\* the value of the longest prefix of decimal digits, after the digits acc
\* already read; seen tells whether a digit has been read
RECURSIVE ParseDigits(_, _, _)
ParseDigits(str, acc, seen) ==
    IF str # <<>> /\ Head(str) \in Digits
    THEN ParseDigits(Tail(str), 10 * acc + DigitValue(Head(str)), TRUE)
    ELSE IF seen THEN [nan |-> FALSE, val |-> acc] ELSE NaN

\* parseInt(n, 10): leading white space is skipped, a sign is read, then the
\* longest prefix of digits; what follows it is ignored; NaN without a digit
parseInt(str) ==
    LET trimmed == SkipWhiteSpace(str)
    IN  IF trimmed # <<>> /\ Head(trimmed) = "-"
        THEN LET n == ParseDigits(Tail(trimmed), 0, FALSE)
             IN  [n EXCEPT !.val = 0 - @]
        ELSE ParseDigits(trimmed, 0, FALSE)

\* a cron expression `${minute} ${hour} * * *`; "* * * * *" has Star in both
Star == -1
CronExpression(minute, hour) == [minute |-> minute, hour |-> hour]
EveryMinute == CronExpression(Star, Star)
Midnight == <<"0", "0", ":", "0", "0">>

\* getReactivationTime: the store's custom time if truthy, else "00:00"
getReactivationTime(store) ==
    IF store.ingredientReactivationTime # <<>>
    THEN store.ingredientReactivationTime ELSE Midnight

\* buildCronExpression: `const [hours, minutes] = time.split(":").map(parseInt)`;
\* a missing part is undefined, which isNaN takes for NaN
buildCronExpression(time) ==
    LET parts == Split(time)
        hours == parseInt(parts[1])
        minutes == IF Len(parts) >= 2 THEN parseInt(parts[2]) ELSE NaN
    IN  IF \/ isNaN(hours) \/ isNaN(minutes)
           \/ hours.val < 0 \/ hours.val > 23 \/ minutes.val < 0 \/ minutes.val > 59
        THEN CronExpression(0, 0)
        ELSE CronExpression(minutes.val, hours.val)

\* ------------------------------------------------------------ timers

\* the timezone of a timer whose store has none: `store.timezone || "Europe/Paris"`
DefaultZone == "Europe/Paris"
\* the timezones a store is given
Zones == {"Europe/London"}
TimerZone(store) == IF store.timezone = None THEN DefaultZone ELSE store.timezone

\* a timer that cron.schedule created and nobody stopped: the store id (or
\* "realtime") it was created for, its expression, its timezone, and whether
\* it is the timer most recently created for that id
Timer(key, expr, tz) == [key |-> key, expr |-> expr, tz |-> tz, latest |-> TRUE]

\* mutant: the previous timer is dropped from the map without job.stop()
StopTimerForgets(ts, key) == ts

\* `job.stop()` on the entry the map (or realtimeCheckJob) holds for key; the
\* entry is the timer most recently created for key
StopTimer(ts, key) == {x \in ts : ~(x.key = key /\ x.latest)}

\* `cron.schedule(expr, callback, options)` for key
NewTimer(ts, key, expr, tz) ==
    {[x EXCEPT !.latest = (x.latest /\ x.key # key)] : x \in ts} \cup {Timer(key, expr, tz)}

\* stopJobForStore(storeId): the timers afterwards, jobs being the map's keys
StoppedJob(ts, jobs, storeId) == IF storeId \in jobs THEN StopTimer(ts, storeId) ELSE ts

\* scheduleReactivationForStore(store): stopJobForStore, then the new timer
ScheduledJob(ts, jobs, storeId, store) ==
    NewTimer(StoppedJob(ts, jobs, storeId), storeId,
             buildCronExpression(getReactivationTime(store)), TimerZone(store))

\* `for (const store of stores) this.scheduleReactivationForStore(store)`
RECURSIVE ScheduledJobs(_, _, _, _)
ScheduledJobs(ts, jobs, ids, table) ==
    IF ids = {} THEN ts
    ELSE LET id == CHOOSE x \in ids : TRUE
         IN  ScheduledJobs(ScheduledJob(ts, jobs, id, table[id]), jobs, ids \ {id}, table)

\* scheduleRealtimeReactivation: the existing sweep timer is stopped, a new
\* one is created
ScheduledSweep(ts, sweep) ==
    NewTimer(IF sweep THEN StopTimer(ts, "realtime") ELSE ts, "realtime", EveryMinute,
             DefaultZone)

\* stopAllJobs: every timer of the map is stopped, and the sweep timer
RECURSIVE StoppedJobs(_, _)
StoppedJobs(ts, jobs) ==
    IF jobs = {} THEN ts
    ELSE LET id == CHOOSE x \in jobs : TRUE
         IN  StoppedJobs(StopTimer(ts, id), jobs \ {id})
\* mutant: stopAllJobs leaves the sweep timer running
StoppedAllButSweep(ts, jobs, sweep) == StoppedJobs(ts, jobs)

\* stopAllJobs: the timers afterwards
StoppedAll(ts, jobs, sweep) ==
    LET rest == StoppedJobs(ts, jobs)
    IN  IF sweep THEN StopTimer(rest, "realtime") ELSE rest

\* mutant: stopping the sweep timer is not counted
SweepCountNone(sweep) == 0

\* the number of stop() calls a sweep timer adds
SweepCount(sweep) == IF sweep THEN 1 ELSE 0

\* ------------------------------------------------------------ ingredients

\* disabledUntil is None or the number of TimeUnit ms steps until it is
\* reached: 0 when it is at or before now
Ingredient(storeId, isAvailable, disabledUntil) ==
    [storeId |-> storeId, isAvailable |-> isAvailable, disabledUntil |-> disabledUntil]
NoDate == -1
DueDates == {NoDate} \cup 0..MaxDue

\* the rows a job named `name` works on: all for the sweep, else one store's
InScope(row, name) == name = "realtime" \/ row.storeId = name

\* mutant: the query has no isAvailable condition
EligibleAlsoAvailable(rows, name) ==
    {id \in IngId : InScope(rows[id], name) /\ rows[id].disabledUntil # NoDate
                        /\ rows[id].disabledUntil <= 0}

\* `find({where: {storeId, isAvailable: false, disabledUntil: LessThanOrEqual(now)}})`
Eligible(rows, name) ==
    {id \in IngId :
        /\ InScope(rows[id], name)
        /\ ~rows[id].isAvailable
        /\ rows[id].disabledUntil # NoDate /\ rows[id].disabledUntil <= 0}

\* mutant: the rows found are not written
SavedNothing(rows, found) == rows

\* mutant: the rows found are written back available, their disabledUntil kept
SavedKeepsDate(rows, found) ==
    [id \in IngId |->
        IF id \in found THEN [rows[id] EXCEPT !.isAvailable = TRUE] ELSE rows[id]]

\* mutant: the rows found are written back with the availability of the
\* table's row inverted, so a second write of a row undoes the first
SavedToggles(rows, found) ==
    [id \in IngId |->
        IF id \in found
        THEN [rows[id] EXCEPT !.isAvailable = ~@, !.disabledUntil = NoDate]
        ELSE rows[id]]

\* the loop over the loaded rows and `save(disabledIngredients)`: the rows
\* found are written back available and with no disabledUntil
Saved(rows, found) ==
    [id \in IngId |->
        IF id \in found
        THEN [rows[id] EXCEPT !.isAvailable = TRUE, !.disabledUntil = NoDate]
        ELSE rows[id]]

\* the table after TimeUnit ms
Aged(rows) ==
    [id \in IngId |->
        IF rows[id].disabledUntil > 0
        THEN [rows[id] EXCEPT !.disabledUntil = @ - 1] ELSE rows[id]]

\* ------------------------------------------------------------ tasks

instanceId(t) == t[1]

\* a store object before findOne has loaded one
NoStore == [isActive |-> FALSE, ingredientReactivationTime |-> <<>>, timezone |-> None]

Idle ==
    [op |-> "none", pc |-> "idle", name |-> None, ttl |-> 0,
     hasLock |-> FALSE, out |-> "none", ret |-> "none", list |-> {},
     failed |-> FALSE, attempts |-> 0, fnCalls |-> 0, relCalls |-> 0, muts |-> 0, dels |-> 0,
     heldAtRel |-> FALSE, relFailed |-> FALSE, fresh |-> FALSE, lapsed |-> FALSE,
     sched |-> 0, stops |-> 0, found |-> {}, saves |-> 0, time |-> <<>>,
     zone |-> None, store |-> NoStore, error |-> <<>>,
     runs |-> [s \in StoreIds |-> "none"], finds |-> [s \in StoreIds |-> {}]]

Free(t) == task[t].pc \in {"idle", "done"}

\* a call returns `ret` to its caller; a timer callback has no caller
Return(rec, ret) ==
    IF rec.op \in {"fire", "poll"} THEN Idle
    ELSE [rec EXCEPT !.pc = "done", !.ret = ret, !.ttl = 0]

\* mutant: the ownership test is dropped
OwnsKeyUnchecked(holder, id) == TRUE

\* `currentLockHolder === this.instanceId`
OwnsKey(holder, id) == holder = id

\* mutant: executeWithLock ignores acquireLock's answer and runs fn anyway
AcquireReturnRunsAnyway(rec, b) ==
    IF rec.op = "acquireLock"
    THEN Return(rec, IF b THEN "true" ELSE "false")
    ELSE [rec EXCEPT !.pc = "fn", !.hasLock = b, !.fnCalls = @ + 1, !.fresh = FALSE]

\* mutant: acquireLock has no catch block, a failed store call propagates
AcquireReturnPropagates(rec, b) ==
    IF rec.failed THEN Return(rec, "throw")
    ELSE IF rec.op = "acquireLock"
    THEN Return(rec, IF b THEN "true" ELSE "false")
    ELSE IF b
         THEN [rec EXCEPT !.pc = "fn", !.hasLock = TRUE, !.fnCalls = @ + 1,
                          !.fresh = FALSE]
         ELSE Return(rec, "null")

\* what acquireLock's caller does with the answer: acquireLock itself returns
\* it; executeWithLock returns null on false and otherwise awaits fn()
AcquireReturn(rec, b) ==
    IF rec.op = "acquireLock"
    THEN Return(rec, IF b THEN "true" ELSE "false")
    ELSE IF b
         THEN [rec EXCEPT !.pc = "fn", !.hasLock = TRUE, !.fnCalls = @ + 1,
                          !.fresh = FALSE]
         ELSE Return(rec, "null")

\* mutant: the finally block swallows fn's outcome
ReleaseReturnDropsOutcome(rec) == Return(rec, "void")

\* releaseLock returns (it never throws); executeWithLock's finally block then
\* lets fn's result or error through
ReleaseReturn(rec) ==
    IF rec.op = "releaseLock" THEN Return(rec, "void") ELSE Return(rec, rec.out)

\* the firing of a timer counts as having run the job for the current cron
\* tick once it starts the job body
RanBy(t, rec) ==
    IF rec.pc = "fn" /\ task[t].fresh
    THEN [ranBy EXCEPT ![rec.name] = @ \cup {instanceId(t)}]
    ELSE ranBy

InitCommon ==
    /\ redis = [k \in Keys |-> Absent]
    /\ task = [t \in TaskId |-> Idle]
    /\ cronJobs = [i \in Inst |-> {}]
    /\ realtimeCheckJob = [i \in Inst |-> FALSE]
    /\ polling = [i \in Inst |-> FALSE]
    /\ started = [i \in Inst |-> FALSE]
    /\ heartbeat = [i \in Inst |-> FALSE]
    /\ beat = [i \in Inst |-> "due"]
    /\ fired = [j \in JobNames |-> {}]
    /\ ranBy = [j \in JobNames |-> {}]
    /\ timers = [i \in Inst |-> {}]

\* a database in which the stores of Stores are active, no store has a custom
\* time and no ingredient is disabled
InitData ==
    /\ stores = [s \in StoreIds |->
                   [isActive |-> s \in Stores, ingredientReactivationTime |-> <<>>,
                    timezone |-> None]]
    /\ ingredients = [id \in IngId |-> Ingredient("s1", TRUE, NoDate)]

Init ==
    /\ InitCommon
    /\ InitData
    /\ mode = "distributed"

\* ------------------------------------------------------------ calls

CallAcquireLock(t, n, ttl) ==
    /\ Free(t)
    /\ task' = [task EXCEPT ![t] =
                  [Idle EXCEPT !.op = "acquireLock", !.pc = "acq_set",
                               !.name = n, !.ttl = ttl]]
    /\ UNCHANGED <<redis, ranBy, engineVars>>

CallReleaseLock(t, n) ==
    /\ Free(t)
    /\ task' = [task EXCEPT ![t] =
                  [Idle EXCEPT !.op = "releaseLock", !.pc = "rel_get",
                               !.name = n, !.relCalls = 1]]
    /\ UNCHANGED <<redis, ranBy, engineVars>>

CallExecuteWithLock(t, n, ttl) ==
    /\ Free(t)
    /\ task' = [task EXCEPT ![t] =
                  [Idle EXCEPT !.op = "executeWithLock", !.pc = "acq_set",
                               !.name = n, !.ttl = ttl]]
    /\ UNCHANGED <<redis, ranBy, engineVars>>

CallIsLeader(t) ==
    /\ Free(t)
    /\ task' = [task EXCEPT ![t] =
                  [Idle EXCEPT !.op = "isLeader", !.pc = "lead_set"]]
    /\ UNCHANGED <<redis, ranBy, engineVars>>

CallRegisterInstance(t) ==
    /\ Free(t)
    /\ task' = [task EXCEPT ![t] =
                  [Idle EXCEPT !.op = "registerInstance", !.pc = "reg_set"]]
    /\ UNCHANGED <<redis, ranBy, engineVars>>

CallGetActiveInstances(t) ==
    /\ Free(t)
    /\ task' = [task EXCEPT ![t] =
                  [Idle EXCEPT !.op = "getActiveInstances", !.pc = "keys"]]
    /\ UNCHANGED <<redis, ranBy, engineVars>>

\* ------------------------------------------------------------ acquireLock

\* `await this.redisClient.set(lockKey, lockValue, {NX, PX})`; ok = FALSE is
\* the call throwing, which the catch block turns into `return false`
AcqSet(t, ok) ==
    LET rec == [task[t] EXCEPT !.attempts = @ + 1]
        k == lockKey(rec.name)
        next == IF ~ok THEN AcquireReturn([rec EXCEPT !.failed = TRUE], FALSE)
                ELSE IF SetNXReply(redis, k) = "OK"
                THEN AcquireReturn([rec EXCEPT !.muts = @ + 1], TRUE)
                ELSE [rec EXCEPT !.pc = "acq_get"]
    IN  /\ task[t].pc = "acq_set"
        /\ redis' = IF ok THEN SetNX(redis, k, instanceId(t), rec.ttl) ELSE redis
        /\ task' = [task EXCEPT ![t] = next]
        /\ ranBy' = RanBy(t, next)
        /\ UNCHANGED engineVars

\* `await this.redisClient.get(lockKey)` and the ownership test
AcqGet(t, ok) ==
    LET rec == task[t]
        k == lockKey(rec.name)
        next == IF ~ok THEN AcquireReturn([rec EXCEPT !.failed = TRUE], FALSE)
                ELSE IF OwnsKey(Get(redis, k), instanceId(t))
                THEN [rec EXCEPT !.pc = "acq_pexpire"]
                ELSE AcquireReturn(rec, FALSE)
    IN  /\ rec.pc = "acq_get"
        /\ task' = [task EXCEPT ![t] = next]
        /\ UNCHANGED <<redis, ranBy, engineVars>>

\* `await this.redisClient.pExpire(lockKey, ttlMs)`
AcqPExpire(t, ok) ==
    LET rec == task[t]
        k == lockKey(rec.name)
        next == IF ~ok THEN AcquireReturn([rec EXCEPT !.failed = TRUE], FALSE)
                ELSE AcquireReturn([rec EXCEPT !.muts = @ + 1], TRUE)
    IN  /\ rec.pc = "acq_pexpire"
        /\ redis' = IF ok THEN PExpire(redis, k, rec.ttl) ELSE redis
        /\ task' = [task EXCEPT ![t] = next]
        /\ ranBy' = RanBy(t, next)
        /\ UNCHANGED engineVars

\* ------------------------------------------------------------ executeWithLock

\* `await fn()` settles: out = "result" (resolved) or "throw" (rejected);
\* control enters the finally block, which calls releaseLock. The job body of
\* a timer settles in this one step when its query finds no row
FnEnd(t, out) ==
    /\ task[t].pc = "fn"
    /\ task[t].op = "fire" => Eligible(ingredients, task[t].name) = {}
    /\ task' = [task EXCEPT ![t] =
                  [@ EXCEPT !.pc = "rel_get", !.out = out, !.relCalls = @ + 1,
                            !.lapsed = FALSE]]
    /\ UNCHANGED <<redis, ranBy, engineVars>>

\* ------------------------------------------------------------ releaseLock

\* `await this.redisClient.get(lockKey)` and the ownership test
RelGet(t, ok) ==
    LET k == lockKey(task[t].name)
        rec == [task[t] EXCEPT !.heldAtRel = (Get(redis, k) = instanceId(t))]
        next == IF ~ok
                THEN ReleaseReturn([rec EXCEPT !.failed = TRUE, !.relFailed = TRUE])
                ELSE IF OwnsKey(Get(redis, k), instanceId(t))
                THEN [rec EXCEPT !.pc = "rel_del"]
                ELSE ReleaseReturn(rec)
    IN  /\ task[t].pc = "rel_get"
        /\ task' = [task EXCEPT ![t] = next]
        /\ UNCHANGED <<redis, ranBy, engineVars>>

\* mutant: releaseLock answers without deleting the key
RelDelKeepsKey(t, ok) ==
    /\ task[t].pc = "rel_del"
    /\ task' = [task EXCEPT ![t] = ReleaseReturn(task[t])]
    /\ UNCHANGED <<redis, ranBy, engineVars>>

\* `await this.redisClient.del(lockKey)`
RelDel(t, ok) ==
    LET rec == task[t]
        k == lockKey(rec.name)
        next == IF ~ok
                THEN ReleaseReturn([rec EXCEPT !.failed = TRUE, !.relFailed = TRUE])
                ELSE ReleaseReturn([rec EXCEPT !.muts = @ + 1, !.dels = @ + 1])
    IN  /\ rec.pc = "rel_del"
        /\ redis' = IF ok THEN Del(redis, k) ELSE redis
        /\ task' = [task EXCEPT ![t] = next]
        /\ UNCHANGED <<ranBy, engineVars>>

\* ------------------------------------------------------------ engine helpers

\* mutant: the query for the stores has no isActive filter
EveryStore == StoreIds

\* the active stores `storeRepository.find({where: {isActive: true}})` returns
ActiveStores == {s \in StoreIds : stores[s].isActive}

HasTimer(i, j) == IF j = "realtime" THEN realtimeCheckJob[i] ELSE j \in cronJobs[i]

\* initializeCronJobs after the stores are loaded: scheduleReactivationForStore
\* for each store (stop the old timer, set the new one), then the sweep timer
ScheduledStores(old, ids) == old \cup ids

\* stopAllJobs: every timer stopped, the map cleared, the sweep timer dropped
StoppedStores(old) == {}

\* mutant: the poll callback never initializes the jobs of a new leader
PollStartsNever(nowLeader, jobs) == FALSE

\* the poll callback's test for initializing: `nowLeader && this.cronJobs.size === 0`
PollStarts(nowLeader, jobs) == nowLeader /\ jobs = {}
\* the poll callback's test for tearing down: `!nowLeader && this.cronJobs.size > 0`
PollStops(nowLeader, jobs) == ~nowLeader /\ jobs # {}

\* mutant: initialize loads the stores whatever the leadership check answered
AfterIsLeaderLoadsAnyway(t, rec, b) ==
    LET i == instanceId(t)
    IN  CASE rec.op = "isLeader" ->
               /\ task' = [task EXCEPT ![t] = Return(rec, IF b THEN "true" ELSE "false")]
               /\ UNCHANGED <<cronJobs, realtimeCheckJob, polling, timers>>
          [] rec.op = "initialize" ->
               /\ task' = [task EXCEPT ![t] = [rec EXCEPT !.pc = "find"]]
               /\ polling' = [polling EXCEPT ![i] = @ \/ ~b]
               /\ UNCHANGED <<cronJobs, realtimeCheckJob, timers>>
          [] rec.op = "poll" ->
               /\ task' = [task EXCEPT ![t] =
                             IF PollStarts(b, cronJobs[i])
                             THEN [rec EXCEPT !.pc = "find"] ELSE Return(rec, "void")]
               /\ cronJobs' = [cronJobs EXCEPT ![i] =
                                 IF ~PollStarts(b, @) /\ PollStops(b, @)
                                 THEN StoppedStores(@) ELSE @]
               /\ realtimeCheckJob' = [realtimeCheckJob EXCEPT ![i] =
                                 IF ~PollStarts(b, cronJobs[i]) /\ PollStops(b, cronJobs[i])
                                 THEN FALSE ELSE @]
               /\ timers' = [timers EXCEPT ![i] =
                                 IF ~PollStarts(b, cronJobs[i]) /\ PollStops(b, cronJobs[i])
                                 THEN StoppedAll(@, cronJobs[i], realtimeCheckJob[i])
                                 ELSE @]
               /\ UNCHANGED polling

\* what isLeader's caller does with the answer b (rec is the task after the
\* store call): isLeader returns it; initialize goes on to initializeCronJobs
\* when leader and otherwise sets the poll interval and returns; the poll
\* callback initializes, tears down or does nothing
AfterIsLeader(t, rec, b) ==
    LET i == instanceId(t)
    IN  CASE rec.op = "isLeader" ->
               /\ task' = [task EXCEPT ![t] = Return(rec, IF b THEN "true" ELSE "false")]
               /\ UNCHANGED <<cronJobs, realtimeCheckJob, polling, timers>>
          [] rec.op = "initialize" ->
               /\ task' = [task EXCEPT ![t] =
                             IF b THEN [rec EXCEPT !.pc = "find"] ELSE Return(rec, "void")]
               /\ polling' = [polling EXCEPT ![i] = @ \/ ~b]
               /\ UNCHANGED <<cronJobs, realtimeCheckJob, timers>>
          [] rec.op = "poll" ->
               /\ task' = [task EXCEPT ![t] =
                             IF PollStarts(b, cronJobs[i])
                             THEN [rec EXCEPT !.pc = "find"] ELSE Return(rec, "void")]
               /\ cronJobs' = [cronJobs EXCEPT ![i] =
                                 IF ~PollStarts(b, @) /\ PollStops(b, @)
                                 THEN StoppedStores(@) ELSE @]
               /\ realtimeCheckJob' = [realtimeCheckJob EXCEPT ![i] =
                                 IF ~PollStarts(b, cronJobs[i]) /\ PollStops(b, cronJobs[i])
                                 THEN FALSE ELSE @]
               /\ timers' = [timers EXCEPT ![i] =
                                 IF ~PollStarts(b, cronJobs[i]) /\ PollStops(b, cronJobs[i])
                                 THEN StoppedAll(@, cronJobs[i], realtimeCheckJob[i])
                                 ELSE @]
               /\ UNCHANGED polling

\* ------------------------------------------------------------ isLeader

LeadSet(t, ok) ==
    LET rec == task[t]
    IN  /\ rec.pc = "lead_set"
        /\ redis' = IF ok THEN SetNX(redis, leaderKey, instanceId(t), leaderTTL) ELSE redis
        /\ IF ~ok THEN AfterIsLeader(t, [rec EXCEPT !.failed = TRUE], FALSE)
           ELSE IF SetNXReply(redis, leaderKey) = "OK"
           THEN AfterIsLeader(t, [rec EXCEPT !.muts = @ + 1], TRUE)
           ELSE /\ task' = [task EXCEPT ![t].pc = "lead_get"]
                /\ UNCHANGED <<cronJobs, realtimeCheckJob, polling, timers>>
        /\ UNCHANGED <<ranBy, started, fired, heartbeat, beat, mode, stores, ingredients>>

LeadGet(t, ok) ==
    LET rec == task[t]
    IN  /\ rec.pc = "lead_get"
        /\ IF ~ok THEN AfterIsLeader(t, [rec EXCEPT !.failed = TRUE], FALSE)
           ELSE IF OwnsKey(Get(redis, leaderKey), instanceId(t))
           THEN /\ task' = [task EXCEPT ![t].pc = "lead_pexpire"]
                /\ UNCHANGED <<cronJobs, realtimeCheckJob, polling, timers>>
           ELSE AfterIsLeader(t, rec, FALSE)
        /\ UNCHANGED <<redis, ranBy, started, fired, heartbeat, beat, mode, stores, ingredients>>

LeadPExpire(t, ok) ==
    LET rec == task[t]
    IN  /\ rec.pc = "lead_pexpire"
        /\ redis' = IF ok THEN PExpire(redis, leaderKey, leaderTTL) ELSE redis
        /\ IF ~ok THEN AfterIsLeader(t, [rec EXCEPT !.failed = TRUE], FALSE)
           ELSE AfterIsLeader(t, [rec EXCEPT !.muts = @ + 1], TRUE)
        /\ UNCHANGED <<ranBy, started, fired, heartbeat, beat, mode, stores, ingredients>>

\* ------------------------------------------------------------ instance registry

\* registerInstance: `await this.redisClient.set(instanceKey, ..., {PX: 60000})`,
\* then the refresh interval is set; a failed set is caught and sets none.
\* initialize goes on to the leadership check (leader mode) or to
\* initializeCronJobs
RegSet(t, ok) ==
    LET rec == task[t]
        i == instanceId(t)
        after == IF ok THEN [rec EXCEPT !.muts = @ + 1] ELSE [rec EXCEPT !.failed = TRUE]
    IN  /\ rec.pc = "reg_set"
        /\ redis' = IF ok THEN SetPX(redis, instanceKey(i), i, instanceTTL) ELSE redis
        /\ heartbeat' = [heartbeat EXCEPT ![i] = @ \/ ok]
        /\ task' = [task EXCEPT ![t] =
                      IF rec.op = "registerInstance" THEN Return(after, "void")
                      ELSE IF mode = "leader" THEN [after EXCEPT !.pc = "lead_set"]
                      ELSE [after EXCEPT !.pc = "find"]]
        /\ UNCHANGED <<ranBy, cronJobs, realtimeCheckJob, polling, started, fired, beat,
                       mode, dataVars>>

\* the refresh interval's callback: `await this.redisClient.pExpire(instanceKey, 60000)`
Heartbeat(i, ok) ==
    /\ heartbeat[i]
    /\ redis' = IF ok THEN PExpire(redis, instanceKey(i), instanceTTL) ELSE redis
    /\ redis' # redis
    /\ UNCHANGED <<task, ranBy, engineVars>>

\* how a run of the refresh callback ends: with `this.redisClient.isOpen`
\* false it sends nothing; a pExpire that throws rejects the async callback,
\* which has no try block and whose promise setInterval drops
BeatOutcome(isOpen, ok) ==
    IF ~isOpen THEN "missed" ELSE IF ok THEN "done" ELSE "rejected"

\* the refresh callback with its period: it runs once in every 30 s
Beat(i, isOpen, ok) ==
    /\ heartbeat[i]
    /\ beat[i] = "due"
    /\ beat' = [beat EXCEPT ![i] = BeatOutcome(isOpen, ok)]
    /\ redis' = IF isOpen /\ ok THEN PExpire(redis, instanceKey(i), instanceTTL) ELSE redis
    /\ UNCHANGED <<task, ranBy, cronJobs, realtimeCheckJob, polling, started, fired,
                   heartbeat, mode, dataVars>>

\* getActiveInstances: `await this.redisClient.keys("cron:instances:*")`
KeysStep(t, ok) ==
    LET rec == task[t]
    IN  /\ rec.pc = "keys"
        /\ task' = [task EXCEPT ![t] =
                      IF ok THEN [Return(rec, "list") EXCEPT !.list = InstanceKeys(redis)]
                      ELSE [Return(rec, "list") EXCEPT !.list = {}, !.failed = TRUE]]
        /\ UNCHANGED <<redis, ranBy, engineVars>>

\* ------------------------------------------------------------ initialize

\* initialize() is called once at process startup
Initialize(i) ==
    /\ ~started[i]
    /\ Free(<<i, 1>>)
    /\ started' = [started EXCEPT ![i] = TRUE]
    /\ task' = [task EXCEPT ![<<i, 1>>] =
                  [Idle EXCEPT !.op = "initialize", !.pc = "connect"]]
    /\ UNCHANGED <<redis, ranBy, cronJobs, realtimeCheckJob, polling, fired, heartbeat, beat, mode,
                   dataVars>>

\* mutant: initialize has no try block around connect()
ConnectFailureThrows(t, ok) ==
    /\ task[t].pc = "connect"
    /\ task' = [task EXCEPT ![t] =
                  IF ok THEN [@ EXCEPT !.pc = "reg_set"]
                  ELSE Return([@ EXCEPT !.failed = TRUE], "throw")]
    /\ UNCHANGED <<redis, ranBy, engineVars>>

\* `await this.distributedCron.connect()`; a failure is caught by initialize's
\* try block, which logs it and returns
Connect(t, ok) ==
    /\ task[t].pc = "connect"
    /\ task' = [task EXCEPT ![t] =
                  IF ok THEN [@ EXCEPT !.pc = "reg_set"]
                  ELSE Return([@ EXCEPT !.failed = TRUE], "void")]
    /\ UNCHANGED <<redis, ranBy, engineVars>>

\* initializeCronJobs: `await storeRepository.find(...)`, then one timer per
\* active store and the sweep timer. A failed find throws: initialize catches
\* it, the poll callback does not
Find(t, ok) ==
    LET i == instanceId(t)
        stopped == Cardinality(ActiveStores \cap cronJobs[i])
                     + SweepCount(realtimeCheckJob[i])
    IN  /\ task[t].pc = "find"
        /\ task' = [task EXCEPT ![t] =
                      IF ok THEN Return([@ EXCEPT !.sched = Cardinality(ActiveStores) + 1,
                                                  !.stops = stopped], "void")
                      ELSE Return([@ EXCEPT !.failed = TRUE],
                                  IF @.op = "poll" THEN "throw" ELSE "void")]
        /\ cronJobs' = [cronJobs EXCEPT ![i] =
                          IF ok THEN ScheduledStores(@, ActiveStores) ELSE @]
        /\ realtimeCheckJob' = [realtimeCheckJob EXCEPT ![i] = @ \/ ok]
        /\ timers' = [timers EXCEPT ![i] =
                        IF ok
                        THEN ScheduledSweep(ScheduledJobs(@, cronJobs[i], ActiveStores, stores),
                                            realtimeCheckJob[i])
                        ELSE @]
        /\ UNCHANGED <<redis, ranBy, polling, started, fired, heartbeat, beat, mode, stores,
                       ingredients>>

\* the error cron.schedule throws for a schedule it rejects
ScheduleError == <<"schedule error">>

\* initializeCronJobs when cron.schedule throws for the store bad (a timezone
\* the scheduler rejects): the stores of before, which the loop reached
\* earlier, have their timers; the old timer of bad was stopped by
\* stopJobForStore; the throw leaves the loop and initializeCronJobs, so the
\* sweep timer is not reached. initialize catches the error, the poll callback
\* does not
FindThrows(t, bad, before) ==
    LET i == instanceId(t)
    IN  /\ task[t].pc = "find"
        /\ bad \in ActiveStores
        /\ before \subseteq ActiveStores \ {bad}
        /\ task' = [task EXCEPT ![t] =
                      Return([@ EXCEPT !.failed = TRUE, !.error = ScheduleError,
                                       !.sched = Cardinality(before),
                                       !.stops = Cardinality((before \cup {bad})
                                                               \cap cronJobs[i])],
                             IF @.op = "poll" THEN "throw" ELSE "void")]
        /\ cronJobs' = [cronJobs EXCEPT ![i] = (@ \cup before) \ {bad}]
        /\ timers' = [timers EXCEPT ![i] =
                        StoppedJob(ScheduledJobs(@, cronJobs[i], before, stores),
                                   cronJobs[i], bad)]
        /\ UNCHANGED <<redis, ranBy, realtimeCheckJob, polling, started, fired, heartbeat, beat,
                       mode, stores, ingredients>>

\* the leadership poll interval's callback starts
Poll(t) ==
    /\ polling[instanceId(t)]
    /\ Free(t)
    /\ \A s \in Slot : s < t[2] => ~Free(<<instanceId(t), s>>)
    /\ task' = [task EXCEPT ![t] = [Idle EXCEPT !.op = "poll", !.pc = "lead_set"]]
    /\ UNCHANGED <<redis, ranBy, engineVars>>

\* ------------------------------------------------------------ the engine's API

\* scheduleReactivationForStore(store), store being the row of id
scheduleReactivationForStore(i, id) ==
    /\ cronJobs' = [cronJobs EXCEPT ![i] = @ \cup {id}]
    /\ timers' = [timers EXCEPT ![i] = ScheduledJob(@, cronJobs[i], id, stores[id])]
    /\ UNCHANGED <<redis, task, ranBy, realtimeCheckJob, polling, started, fired,
                   heartbeat, beat, mode, stores, ingredients>>

\* stopJobForStore(storeId)
stopJobForStore(i, id) ==
    /\ cronJobs' = [cronJobs EXCEPT ![i] = @ \ {id}]
    /\ timers' = [timers EXCEPT ![i] = StoppedJob(@, cronJobs[i], id)]
    /\ UNCHANGED <<redis, task, ranBy, realtimeCheckJob, polling, started, fired,
                   heartbeat, beat, mode, stores, ingredients>>

\* an id that is in no row of the stores table
UnknownStore == "s9"

\* updateStoreReactivationTime(storeId, time, timezone) is called; a timezone
\* of None is one not given
CallUpdateStoreReactivationTime(t, id, time, timezone) ==
    /\ Free(t)
    /\ task' = [task EXCEPT ![t] =
                  [Idle EXCEPT !.op = "updateStoreReactivationTime", !.pc = "upd_find",
                               !.name = id, !.time = time, !.zone = timezone]]
    /\ UNCHANGED <<redis, ranBy, engineVars>>

\* the error a failed database call rejects with
DatabaseError == <<"database error">>
\* `new Error(`Store ${storeId} not found`)`
StoreNotFound(storeId) == <<"Store ", storeId, " not found">>

\* `await storeRepository.findOne({where: {id: storeId}})`; a null result
\* throws "Store not found"; the catch block logs and rethrows
UpdFind(t, ok) ==
    /\ task[t].pc = "upd_find"
    /\ task' = [task EXCEPT ![t] =
                  IF ~ok THEN Return([@ EXCEPT !.failed = TRUE, !.error = DatabaseError],
                                     "throw")
                  ELSE IF @.name \notin StoreIds
                  THEN Return([@ EXCEPT !.error = StoreNotFound(task[t].name)], "throw")
                  ELSE [@ EXCEPT !.pc = "upd_save", !.store = stores[task[t].name]]]
    /\ UNCHANGED <<redis, ranBy, engineVars>>

\* the store object findOne loaded, with the new time and, when one is given,
\* the new timezone
Updated(rec) ==
    [rec.store EXCEPT !.ingredientReactivationTime = rec.time,
                      !.timezone = IF rec.zone # None THEN rec.zone ELSE @]

\* mutant: the store is saved and its timer is left as it was
UpdSaveKeepsTimer(t, ok) ==
    /\ task[t].pc = "upd_save"
    /\ task' = [task EXCEPT ![t] =
                  IF ok THEN Return([@ EXCEPT !.store = NoStore], "void")
                  ELSE Return([@ EXCEPT !.failed = TRUE, !.store = NoStore,
                                        !.error = DatabaseError], "throw")]
    /\ stores' = IF ok THEN [stores EXCEPT ![task[t].name] = Updated(task[t])] ELSE stores
    /\ UNCHANGED <<redis, ranBy, cronJobs, realtimeCheckJob, polling, started, fired,
                   heartbeat, beat, mode, timers, ingredients>>

\* mutant: the timer is replaced before the save is awaited
UpdSaveSchedulesFirst(t, ok) ==
    LET i == instanceId(t)
        id == task[t].name
        store == Updated(task[t])
    IN  /\ task[t].pc = "upd_save"
        /\ task' = [task EXCEPT ![t] =
                      IF ok THEN Return([@ EXCEPT !.sched = 1,
                                                  !.stops = Cardinality({id} \cap cronJobs[i]),
                                                  !.store = NoStore],
                                        "void")
                      ELSE Return([@ EXCEPT !.failed = TRUE, !.store = NoStore,
                                            !.error = DatabaseError], "throw")]
        /\ stores' = IF ok THEN [stores EXCEPT ![id] = store] ELSE stores
        /\ cronJobs' = [cronJobs EXCEPT ![i] = @ \cup {id}]
        /\ timers' = [timers EXCEPT ![i] = ScheduledJob(@, cronJobs[i], id, store)]
        /\ UNCHANGED <<redis, ranBy, realtimeCheckJob, polling, started, fired, heartbeat, beat,
                       mode, ingredients>>

\* `await storeRepository.save(store)`, then scheduleReactivationForStore(store)
\* with the store object that carries the new time
UpdSave(t, ok) ==
    LET i == instanceId(t)
        id == task[t].name
        store == Updated(task[t])
    IN  /\ task[t].pc = "upd_save"
        /\ task' = [task EXCEPT ![t] =
                      IF ok THEN Return([@ EXCEPT !.sched = 1,
                                                  !.stops = Cardinality({id} \cap cronJobs[i]),
                                                  !.store = NoStore],
                                        "void")
                      ELSE Return([@ EXCEPT !.failed = TRUE, !.store = NoStore,
                                            !.error = DatabaseError], "throw")]
        /\ stores' = IF ok THEN [stores EXCEPT ![id] = store] ELSE stores
        /\ cronJobs' = [cronJobs EXCEPT ![i] = IF ok THEN @ \cup {id} ELSE @]
        /\ timers' = [timers EXCEPT ![i] =
                        IF ok THEN ScheduledJob(@, cronJobs[i], id, store) ELSE @]
        /\ UNCHANGED <<redis, ranBy, realtimeCheckJob, polling, started, fired, heartbeat, beat,
                       mode, ingredients>>

\* shutdown() is called: stopAllJobs() runs at once, then disconnect() is awaited
CallShutdown(t) ==
    LET i == instanceId(t)
    IN  /\ Free(t)
        /\ task' = [task EXCEPT ![t] =
                      [Idle EXCEPT !.op = "shutdown", !.pc = "disconnect",
                                   !.stops = Cardinality(cronJobs[i])
                                               + SweepCount(realtimeCheckJob[i])]]
        /\ cronJobs' = [cronJobs EXCEPT ![i] = StoppedStores(@)]
        /\ realtimeCheckJob' = [realtimeCheckJob EXCEPT ![i] = FALSE]
        /\ timers' = [timers EXCEPT ![i] = StoppedAll(@, cronJobs[i], realtimeCheckJob[i])]
        /\ UNCHANGED <<redis, ranBy, polling, started, fired, heartbeat, beat, mode, stores,
                       ingredients>>

\* `await this.distributedCron.disconnect()`; shutdown has no catch block
Disconnect(t, ok) ==
    /\ task[t].pc = "disconnect"
    /\ task' = [task EXCEPT ![t] =
                  IF ok THEN Return(@, "void")
                  ELSE Return([@ EXCEPT !.failed = TRUE], "throw")]
    /\ UNCHANGED <<redis, ranBy, engineVars>>

\* ------------------------------------------------------------ the job body

\* reactivateIngredientsForStore(name), or reactivateAllExpiredIngredients()
\* when name is "realtime", is run directly
CallReactivateIngredients(t, name) ==
    /\ Free(t)
    /\ task' = [task EXCEPT ![t] =
                  [Idle EXCEPT !.op = "reactivateIngredients", !.pc = "body",
                               !.name = name]]
    /\ UNCHANGED <<redis, ranBy, engineVars>>

\* mutant: the body has no catch block, a failed database call rejects it
BodyReturnRejects(rec) ==
    IF rec.op = "fire"
    THEN [rec EXCEPT !.pc = "rel_get", !.out = IF rec.failed THEN "throw" ELSE "result",
                     !.relCalls = @ + 1, !.lapsed = FALSE]
    ELSE Return(rec, IF rec.failed THEN "throw" ELSE "void")

\* the body resolves (its catch block lets no error out): a direct run
\* returns, a timer's run enters executeWithLock's finally block
BodyReturn(rec) ==
    IF rec.op = "fire"
    THEN [rec EXCEPT !.pc = "rel_get", !.out = "result", !.relCalls = @ + 1,
                     !.lapsed = FALSE]
    ELSE Return(rec, "void")

\* `now = new Date(); await ingredientRepository.find({where: ...})`; an empty
\* result returns without writing
BodyFind(t, ok) ==
    LET rec == task[t]
        found == Eligible(ingredients, rec.name)
    IN  /\ rec.pc = "body" \/ (rec.pc = "fn" /\ rec.op = "fire")
        /\ task' = [task EXCEPT ![t] =
                      IF ~ok THEN BodyReturn([rec EXCEPT !.failed = TRUE])
                      ELSE IF found = {} THEN BodyReturn(rec)
                      ELSE [rec EXCEPT !.pc = "save", !.found = found]]
        /\ UNCHANGED <<redis, ranBy, engineVars>>

\* `await ingredientRepository.save(disabledIngredients)`
BodySave(t, ok) ==
    LET rec == task[t]
    IN  /\ rec.pc = "save"
        /\ task' = [task EXCEPT ![t] =
                      IF ok THEN BodyReturn([rec EXCEPT !.saves = @ + 1])
                      ELSE BodyReturn([rec EXCEPT !.failed = TRUE])]
        /\ ingredients' = IF ok THEN Saved(ingredients, rec.found) ELSE ingredients
        /\ UNCHANGED <<redis, ranBy, cronJobs, realtimeCheckJob, polling, started, fired,
                       heartbeat, beat, mode, timers, stores>>

\* MenusService.disableIngredient(id, until), until being a date to come: the
\* loaded ingredient gets `disabledUntil = until` and is saved
disableIngredient(id, until) ==
    /\ ingredients' = [ingredients EXCEPT ![id].disabledUntil = until]
    /\ UNCHANGED <<redis, task, ranBy, cronJobs, realtimeCheckJob, polling, started, fired,
                   heartbeat, beat, mode, timers, stores>>

\* ------------------------------------------------------------ reactivateAllStores

\* reactivateAllStores() is called
CallReactivateAllStores(t) ==
    /\ Free(t)
    /\ task' = [task EXCEPT ![t] =
                  [Idle EXCEPT !.op = "reactivateAllStores", !.pc = "all_find"]]
    /\ UNCHANGED <<redis, ranBy, engineVars>>

\* `await Promise.all(promises)` resolves once every run has resolved
AllSettled(runs) == \A s \in StoreIds : runs[s] \in {"none", "done", "failed"}

\* the call after one of its runs has taken a step: it returns when all have
\* resolved
AfterRun(rec) == IF AllSettled(rec.runs) THEN Return(rec, "void") ELSE rec

\* `await storeRepository.find({where: {isActive: true}})`, then
\* reactivateIngredientsForStore(store.id) is called for each store and runs
\* up to its own find; a failed find is caught and logged
AllFind(t, ok) ==
    /\ task[t].pc = "all_find"
    /\ task' = [task EXCEPT ![t] =
                  IF ~ok THEN Return([@ EXCEPT !.failed = TRUE], "void")
                  ELSE AfterRun([@ EXCEPT !.pc = "all_runs",
                                          !.runs = [s \in StoreIds |->
                                                      IF s \in ActiveStores THEN "find"
                                                      ELSE "none"]])]
    /\ UNCHANGED <<redis, ranBy, engineVars>>

\* the find of the run for store s; the run's catch block lets no error out
AllBodyFind(t, s, ok) ==
    LET found == Eligible(ingredients, s)
    IN  /\ task[t].pc = "all_runs"
        /\ task[t].runs[s] = "find"
        /\ task' = [task EXCEPT ![t] =
                      IF ~ok THEN AfterRun([@ EXCEPT !.runs[s] = "failed"])
                      ELSE IF found = {} THEN AfterRun([@ EXCEPT !.runs[s] = "done"])
                      ELSE [@ EXCEPT !.runs[s] = "save", !.finds[s] = found]]
        /\ UNCHANGED <<redis, ranBy, engineVars>>

\* mutant: a run whose save fails rejects, and Promise.all with it
AllBodySaveRejects(t, s, ok) ==
    /\ task[t].pc = "all_runs"
    /\ task[t].runs[s] = "save"
    /\ task' = [task EXCEPT ![t] =
                  IF ok THEN AfterRun([@ EXCEPT !.runs[s] = "done", !.saves = @ + 1])
                  ELSE Return([@ EXCEPT !.runs[s] = "failed"], "throw")]
    /\ ingredients' = IF ok THEN Saved(ingredients, task[t].finds[s]) ELSE ingredients
    /\ UNCHANGED <<redis, ranBy, cronJobs, realtimeCheckJob, polling, started, fired,
                   heartbeat, beat, mode, timers, stores>>

\* the save of the run for store s
AllBodySave(t, s, ok) ==
    /\ task[t].pc = "all_runs"
    /\ task[t].runs[s] = "save"
    /\ task' = [task EXCEPT ![t] =
                  IF ok THEN AfterRun([@ EXCEPT !.runs[s] = "done", !.saves = @ + 1])
                  ELSE AfterRun([@ EXCEPT !.runs[s] = "failed"])]
    /\ ingredients' = IF ok THEN Saved(ingredients, task[t].finds[s]) ELSE ingredients
    /\ UNCHANGED <<redis, ranBy, cronJobs, realtimeCheckJob, polling, started, fired,
                   heartbeat, beat, mode, timers, stores>>

\* ------------------------------------------------------------ timers

\* the next cron tick of job j begins once every instance holding a timer for
\* j has fired for the current one (or has no callback slot left for it)
CronTick(j) ==
    /\ fired[j] # {}
    /\ \A i \in Inst :
          HasTimer(i, j) /\ i \notin fired[j] => \A s \in Slot : ~Free(<<i, s>>)
    /\ fired' = [fired EXCEPT ![j] = {}]
    /\ ranBy' = [ranBy EXCEPT ![j] = {}]
    /\ task' = [t \in TaskId |->
                  IF task[t].name = j THEN [task[t] EXCEPT !.fresh = FALSE] ELSE task[t]]
    /\ UNCHANGED <<redis, cronJobs, realtimeCheckJob, polling, started, heartbeat, beat, mode,
                   dataVars>>

\* mutant: a timer fires whether or not it was stopped
FireThoughStopped(t, j) ==
    /\ instanceId(t) \notin fired[j]
    /\ Free(t)
    /\ fired' = [fired EXCEPT ![j] = @ \cup {instanceId(t)}]
    /\ task' = [task EXCEPT ![t] =
                  [Idle EXCEPT !.op = "fire", !.pc = "acq_set", !.name = j,
                               !.ttl = jobLockTTL, !.fresh = TRUE]]
    /\ UNCHANGED <<redis, ranBy, cronJobs, realtimeCheckJob, polling, started,
                   heartbeat, beat, mode, dataVars>>

\* the timer of job j fires on instance i: the callback awaits
\* executeWithLock(`ingredient-reactivation:${j}`, body, 120000)
Fire(t, j) ==
    LET i == instanceId(t)
    IN  /\ HasTimer(i, j)
        /\ i \notin fired[j]
        /\ Free(t)
        /\ \A s \in Slot : s < t[2] => ~Free(<<i, s>>)
        /\ fired' = [fired EXCEPT ![j] = @ \cup {i}]
        /\ task' = [task EXCEPT ![t] =
                      [Idle EXCEPT !.op = "fire", !.pc = "acq_set", !.name = j,
                                   !.ttl = jobLockTTL, !.fresh = TRUE]]
        /\ UNCHANGED <<redis, ranBy, cronJobs, realtimeCheckJob, polling, started,
                       heartbeat, beat, mode, dataVars>>

\* ------------------------------------------------------------ time

\* the calls during or after which an expiry of the leadership token is
\* recorded: a direct isLeader call past its SET, or returned
LeadWatch(rec) ==
    rec.op = "isLeader" /\ rec.pc \in {"lead_get", "lead_pexpire", "done"}

\* the calls during or after which the coming due of an ingredient is
\* recorded: a direct run of the job body past its find, or returned
BodyWatch(rec) ==
    rec.op = "reactivateIngredients" /\ rec.pc \in {"save", "done"}

\* TimeUnit ms pass in the store and in the database; a job body whose lock
\* runs out meanwhile is marked, and so are an isLeader call when the
\* leadership token runs out and a run of the job body when a disabledUntil
\* is reached
Tick ==
    /\ \/ \E k \in Keys : redis[k].val # None
       \/ Aged(ingredients) # ingredients
    /\ redis' = AfterTime(redis)
    /\ ingredients' = Aged(ingredients)
    /\ task' = [t \in TaskId |->
                  IF \/ task[t].pc = "fn" /\ Expired(redis, lockKey(task[t].name))
                     \/ LeadWatch(task[t]) /\ Expired(redis, leaderKey)
                     \/ BodyWatch(task[t]) /\ Aged(ingredients) # ingredients
                  THEN [task[t] EXCEPT !.lapsed = TRUE] ELSE task[t]]
    /\ beat' = [i \in Inst |-> "due"]
    /\ UNCHANGED <<ranBy, cronJobs, realtimeCheckJob, polling, started, fired, heartbeat,
                   mode, timers, stores>>

\* 30 s pass once every refresh interval has had its run
BeatTick ==
    /\ \A i \in Inst : heartbeat[i] => beat[i] # "due"
    /\ Tick

\* ------------------------------------------------------------ specifications

\* the lock manager driven by concurrent direct callers, with store calls
\* that may fail and TTLs that run down
NextLock ==
    \/ \E t \in LockTasks, n \in LockNames, ttl \in TTLs : CallAcquireLock(t, n, ttl)
    \/ \E t \in LockTasks, n \in LockNames : CallReleaseLock(t, n)
    \/ \E t \in LockTasks, n \in LockNames, ttl \in TTLs : CallExecuteWithLock(t, n, ttl)
    \/ \E t \in LockTasks : CallIsLeader(t)
    \/ \E t \in LockTasks : CallRegisterInstance(t)
    \/ \E t \in LockTasks : CallGetActiveInstances(t)
    \/ \E t \in LockTasks, ok \in BOOLEAN : AcqSet(t, ok)
    \/ \E t \in LockTasks, ok \in BOOLEAN : AcqGet(t, ok)
    \/ \E t \in LockTasks, ok \in BOOLEAN : AcqPExpire(t, ok)
    \/ \E t \in LockTasks, out \in {"result", "throw"} : FnEnd(t, out)
    \/ \E t \in LockTasks, ok \in BOOLEAN : RelGet(t, ok)
    \/ \E t \in LockTasks, ok \in BOOLEAN : RelDel(t, ok)
    \/ \E t \in LockTasks, ok \in BOOLEAN : LeadSet(t, ok)
    \/ \E t \in LockTasks, ok \in BOOLEAN : LeadGet(t, ok)
    \/ \E t \in LockTasks, ok \in BOOLEAN : LeadPExpire(t, ok)
    \/ \E t \in LockTasks, ok \in BOOLEAN : RegSet(t, ok)
    \/ \E t \in LockTasks, ok \in BOOLEAN : KeysStep(t, ok)
    \/ \E i \in Inst : Heartbeat(i, TRUE)
    \/ Tick

SpecLock == Init /\ [][NextLock]_vars

\* the engine in distributed mode once initialize() has completed on every
\* instance: every instance holds every timer. The instance registry, which no
\* job reads, is left as a failed registerInstance leaves it. Within the
\* minutes this specification spans only the every-minute sweep comes due; the
\* per-store timers are daily
DistJobs == {"realtime"}

InitDist ==
    /\ InitData
    /\ redis = [k \in Keys |-> Absent]
    /\ task = [t \in TaskId |-> Idle]
    /\ cronJobs = [i \in Inst |-> ActiveStores]
    /\ realtimeCheckJob = [i \in Inst |-> TRUE]
    /\ polling = [i \in Inst |-> FALSE]
    /\ started = [i \in Inst |-> TRUE]
    /\ heartbeat = [i \in Inst |-> FALSE]
    /\ beat = [i \in Inst |-> "due"]
    /\ fired = [j \in JobNames |-> {}]
    /\ ranBy = [j \in JobNames |-> {}]
    /\ timers = [i \in Inst |->
                   ScheduledSweep(ScheduledJobs({}, {}, ActiveStores, stores), FALSE)]
    /\ mode = "distributed"

NextDist ==
    \/ \E j \in DistJobs : CronTick(j)
    \/ \E t \in TaskId, j \in DistJobs : Fire(t, j)
    \/ \E t \in TaskId : AcqSet(t, TRUE)
    \/ \E t \in TaskId : AcqGet(t, TRUE)
    \/ \E t \in TaskId : AcqPExpire(t, TRUE)
    \/ \E t \in TaskId : FnEnd(t, "result")
    \/ \E t \in TaskId : RelGet(t, TRUE)
    \/ \E t \in TaskId : RelDel(t, TRUE)
    \/ Tick

SpecDist == InitDist /\ [][NextDist]_vars

\* the engine in leader mode: initialize checks leadership, non-leaders poll
InitLeader ==
    /\ InitCommon
    /\ InitData
    /\ mode = "leader"

NextLeader ==
    \/ \E i \in Inst : Initialize(i)
    \/ \E t \in TaskId, ok \in BOOLEAN : Connect(t, ok)
    \/ \E t \in TaskId, ok \in BOOLEAN : RegSet(t, ok)
    \/ \E t \in TaskId, ok \in BOOLEAN : LeadSet(t, ok)
    \/ \E t \in TaskId, ok \in BOOLEAN : LeadGet(t, ok)
    \/ \E t \in TaskId, ok \in BOOLEAN : LeadPExpire(t, ok)
    \/ \E t \in TaskId, ok \in BOOLEAN : Find(t, ok)
    \/ \E t \in TaskId : Poll(t)
    \/ \E i \in Inst : Heartbeat(i, TRUE)
    \/ Tick

SpecLeader == InitLeader /\ [][NextLeader]_vars

\* TimeUnit ms pass while no call is pending: the store answers a call within
\* milliseconds, far inside a TTL or a poll period
PromptTick ==
    /\ \A t \in TaskId : Free(t)
    /\ Tick

\* the engine in leader mode with a store and a database that answer every
\* call, and promptly: a poll callback has returned before the next one
\* starts. Started instances keep running, so every pending await completes,
\* the 15 s poll interval and the 30 s refresh interval keep firing and time
\* keeps passing
NextFailover ==
    \/ \E i \in Inst : Initialize(i)
    \/ \E t \in LockTasks : Connect(t, TRUE)
    \/ \E t \in LockTasks : RegSet(t, TRUE)
    \/ \E t \in LockTasks : LeadSet(t, TRUE)
    \/ \E t \in LockTasks : LeadGet(t, TRUE)
    \/ \E t \in LockTasks : LeadPExpire(t, TRUE)
    \/ \E t \in LockTasks : Find(t, TRUE)
    \/ \E t \in LockTasks : Poll(t)
    \/ \E i \in Inst : Heartbeat(i, TRUE)
    \/ PromptTick

FairFailover ==
    /\ \A t \in LockTasks :
          /\ WF_vars(Connect(t, TRUE))
          /\ WF_vars(RegSet(t, TRUE))
          /\ WF_vars(LeadSet(t, TRUE))
          /\ WF_vars(LeadGet(t, TRUE))
          /\ WF_vars(LeadPExpire(t, TRUE))
          /\ WF_vars(Find(t, TRUE))
          /\ WF_vars(Poll(t))
    /\ \A i \in Inst : WF_vars(Heartbeat(i, TRUE))
    /\ SF_vars(PromptTick)

SpecFailover == InitLeader /\ [][NextFailover]_vars /\ FairFailover

\* one engine instance in distributed mode, driven through its API: initialize
\* at startup, then schedule, stop, update and shutdown calls in any order,
\* over a database with any set of active stores
SchedInst == {"i1"}
SchedTasks == SchedInst \X Slot
\* the time updateStoreReactivationTime is called with: "06:30"
SchedTimes == {<<"0", "6", ":", "3", "0">>}

InitSched ==
    /\ InitCommon
    /\ stores \in [StoreIds -> [isActive : BOOLEAN, ingredientReactivationTime : {<<>>},
                                  timezone : {None}]]
    /\ ingredients = [id \in IngId |-> Ingredient("s1", TRUE, NoDate)]
    /\ mode = "distributed"

NextSched ==
    \/ \E i \in SchedInst : Initialize(i)
    \/ \E t \in SchedTasks, ok \in BOOLEAN : Connect(t, ok)
    \/ \E t \in SchedTasks, ok \in BOOLEAN : RegSet(t, ok)
    \/ \E t \in SchedTasks, ok \in BOOLEAN : Find(t, ok)
    \/ \E i \in SchedInst, id \in StoreIds : scheduleReactivationForStore(i, id)
    \/ \E i \in SchedInst, id \in StoreIds : stopJobForStore(i, id)
    \/ \E t \in SchedTasks, id \in StoreIds \cup {UnknownStore}, time \in SchedTimes :
          CallUpdateStoreReactivationTime(t, id, time, None)
    \/ \E t \in SchedTasks, ok \in BOOLEAN : UpdFind(t, ok)
    \/ \E t \in SchedTasks, ok \in BOOLEAN : UpdSave(t, ok)
    \/ \E t \in SchedTasks : CallShutdown(t)
    \/ \E t \in SchedTasks, ok \in BOOLEAN : Disconnect(t, ok)

SpecSched == InitSched /\ [][NextSched]_vars

\* the job body run directly, by one call at a time per instance, over every
\* content of the ingredients table, while time passes
JobNamesRun == StoreIds \cup {"realtime"}

InitJob ==
    /\ InitCommon
    /\ stores = [s \in StoreIds |->
                   [isActive |-> s \in Stores, ingredientReactivationTime |-> <<>>,
                    timezone |-> None]]
    /\ ingredients \in [IngId -> [storeId : StoreIds, isAvailable : BOOLEAN,
                                  disabledUntil : DueDates]]
    /\ mode = "distributed"

NextJob ==
    \/ \E t \in LockTasks, name \in JobNamesRun : CallReactivateIngredients(t, name)
    \/ \E t \in LockTasks, ok \in BOOLEAN : BodyFind(t, ok)
    \/ \E t \in LockTasks, ok \in BOOLEAN : BodySave(t, ok)
    \/ Tick

SpecJob == InitJob /\ [][NextJob]_vars

\* scheduleReactivationForStore called for a store whose custom time is any
\* string of at most MaxTimeLen characters, or not set
InitCron ==
    /\ InitCommon
    /\ \E time \in TimeStrings :
          stores = [s \in StoreIds |->
                      [isActive |-> s \in Stores,
                       ingredientReactivationTime |-> IF s \in Stores THEN time ELSE <<>>,
                       timezone |-> None]]
    /\ ingredients = [id \in IngId |-> Ingredient("s1", TRUE, NoDate)]
    /\ mode = "distributed"

NextCron ==
    \E i \in SchedInst, id \in Stores : scheduleReactivationForStore(i, id)

SpecCron == InitCron /\ [][NextCron]_vars

\* the engine started in either mode over a database with any set of active
\* stores: initialize on every instance, and the leadership poll in leader mode
InitStartup ==
    /\ InitCommon
    /\ stores \in [StoreIds -> [isActive : BOOLEAN, ingredientReactivationTime : {<<>>},
                                  timezone : {None}]]
    /\ ingredients = [id \in IngId |-> Ingredient("s1", TRUE, NoDate)]
    /\ mode \in {"distributed", "leader"}

SpecStartup == InitStartup /\ [][NextLeader]_vars

\* updateStoreReactivationTime called on one instance, two calls at a time,
\* for known and unknown stores, with and without a timezone, over a database
\* whose calls fail or succeed
\* the times of the calls: "06:30" and "23:09"
UpdTimes == {<<"0", "6", ":", "3", "0">>, <<"2", "3", ":", "0", "9">>}

InitUpdate ==
    /\ InitCommon
    /\ \E zone \in [StoreIds -> Zones \cup {None}] :
          stores = [s \in StoreIds |->
                      [isActive |-> s \in Stores, ingredientReactivationTime |-> <<>>,
                       timezone |-> zone[s]]]
    /\ ingredients = [id \in IngId |-> Ingredient("s1", TRUE, NoDate)]
    /\ mode = "distributed"

NextUpdate ==
    \/ \E t \in SchedTasks, id \in StoreIds \cup {UnknownStore}, time \in UpdTimes,
            timezone \in Zones \cup {None} :
          CallUpdateStoreReactivationTime(t, id, time, timezone)
    \/ \E t \in SchedTasks, ok \in BOOLEAN : UpdFind(t, ok)
    \/ \E t \in SchedTasks, ok \in BOOLEAN : UpdSave(t, ok)

SpecUpdate == InitUpdate /\ [][NextUpdate]_vars

\* reactivateAllStores called on one instance, two calls at a time, over every
\* content of the ingredients table and a database whose calls fail or
\* succeed, while a lock of another instance is held in the store
InitAll ==
    /\ \E held \in BOOLEAN :
          redis = [k \in Keys |->
                     IF held /\ k = lockKey("s1")
                     THEN [val |-> "i2", ttl |-> jobLockTTL] ELSE Absent]
    /\ task = [t \in TaskId |-> Idle]
    /\ cronJobs = [i \in Inst |-> {}]
    /\ realtimeCheckJob = [i \in Inst |-> FALSE]
    /\ polling = [i \in Inst |-> FALSE]
    /\ started = [i \in Inst |-> FALSE]
    /\ heartbeat = [i \in Inst |-> FALSE]
    /\ beat = [i \in Inst |-> "due"]
    /\ fired = [j \in JobNames |-> {}]
    /\ ranBy = [j \in JobNames |-> {}]
    /\ timers = [i \in Inst |-> {}]
    /\ \E active \in BOOLEAN :
          stores = [s \in StoreIds |->
                      [isActive |-> s \in Stores \/ active,
                       ingredientReactivationTime |-> <<>>, timezone |-> None]]
    /\ ingredients \in [IngId -> [storeId : StoreIds, isAvailable : BOOLEAN,
                                  disabledUntil : DueDates]]
    /\ mode = "distributed"

NextAll ==
    \/ \E t \in SchedTasks : CallReactivateAllStores(t)
    \/ \E t \in SchedTasks, ok \in BOOLEAN : AllFind(t, ok)
    \/ \E t \in SchedTasks, s \in StoreIds, ok \in BOOLEAN : AllBodyFind(t, s, ok)
    \/ \E t \in SchedTasks, s \in StoreIds, ok \in BOOLEAN : AllBodySave(t, s, ok)

SpecAll == InitAll /\ [][NextAll]_vars

\* the engine in distributed mode once initialize() has completed on every
\* instance, with ingredients due in the database: the per-store timer and the
\* sweep timer fire, one callback at a time per instance, the store answers
\* every call and the database fails or answers
InitBody ==
    /\ stores = [s \in StoreIds |->
                   [isActive |-> s \in Stores, ingredientReactivationTime |-> <<>>,
                    timezone |-> None]]
    /\ ingredients = [id \in IngId |-> Ingredient(IF id = "a" THEN "s1" ELSE "s0", FALSE, 0)]
    /\ redis = [k \in Keys |-> Absent]
    /\ task = [t \in TaskId |-> Idle]
    /\ cronJobs = [i \in Inst |-> ActiveStores]
    /\ realtimeCheckJob = [i \in Inst |-> TRUE]
    /\ polling = [i \in Inst |-> FALSE]
    /\ started = [i \in Inst |-> TRUE]
    /\ heartbeat = [i \in Inst |-> FALSE]
    /\ beat = [i \in Inst |-> "due"]
    /\ fired = [j \in JobNames |-> {}]
    /\ ranBy = [j \in JobNames |-> {}]
    /\ timers = [i \in Inst |->
                   ScheduledSweep(ScheduledJobs({}, {}, ActiveStores, stores), FALSE)]
    /\ mode = "distributed"

NextBody ==
    \/ \E j \in JobNames : CronTick(j)
    \/ \E t \in LockTasks, j \in JobNames : Fire(t, j)
    \/ \E t \in LockTasks : AcqSet(t, TRUE)
    \/ \E t \in LockTasks : AcqGet(t, TRUE)
    \/ \E t \in LockTasks, ok \in BOOLEAN : BodyFind(t, ok)
    \/ \E t \in LockTasks, ok \in BOOLEAN : BodySave(t, ok)
    \/ \E t \in LockTasks : FnEnd(t, "result")
    \/ \E t \in LockTasks : RelGet(t, TRUE)
    \/ \E t \in LockTasks : RelDel(t, TRUE)

SpecBody == InitBody /\ [][NextBody]_vars

\* the engine started in distributed mode over two active stores, with a
\* scheduler that may reject the schedule of a store
InitMisconf ==
    /\ InitCommon
    /\ stores = [s \in StoreIds |->
                   [isActive |-> TRUE, ingredientReactivationTime |-> <<>>,
                    timezone |-> None]]
    /\ ingredients = [id \in IngId |-> Ingredient("s1", TRUE, NoDate)]
    /\ mode = "distributed"

NextMisconf ==
    \/ \E i \in Inst : Initialize(i)
    \/ \E t \in TaskId, ok \in BOOLEAN : Connect(t, ok)
    \/ \E t \in TaskId, ok \in BOOLEAN : RegSet(t, ok)
    \/ \E t \in TaskId, ok \in BOOLEAN : Find(t, ok)
    \/ \E i \in Inst : Heartbeat(i, TRUE)
    \/ Tick
    \/ \E t \in TaskId, bad \in StoreIds, before \in SUBSET StoreIds :
          FindThrows(t, bad, before)

SpecMisconf == InitMisconf /\ [][NextMisconf]_vars

\* two or more instances racing acquireLock on absent locks: no release, no
\* expiry, no store failure
NextRace ==
    \/ \E t \in LockTasks, n \in JobNames, ttl \in TTLs : CallAcquireLock(t, n, ttl)
    \/ \E t \in LockTasks : AcqSet(t, TRUE)
    \/ \E t \in LockTasks : AcqGet(t, TRUE)
    \/ \E t \in LockTasks : AcqPExpire(t, TRUE)

SpecRace == Init /\ [][NextRace]_vars

\* ------------------------------------------------------------ claims

AcquirePcs == {"acq_set", "acq_get", "acq_pexpire"}
ReleasePcs == {"rel_get", "rel_del"}
Others(i) == Inst \ {i}
Stepped(t) == task'[t] # task[t]

\* C1: two distinct instances racing acquireLock(N, ttl) on a lock that did
\* not exist, with no TTL expiry, release or store failure in between: once
\* both calls have returned, exactly one returned true and the stored holder
\* of N is that caller's instance id.
C1_ExactlyOneAcquires ==
    \A t1, t2 \in LockTasks :
        ( /\ instanceId(t1) # instanceId(t2)
          /\ task[t1].op = "acquireLock" /\ task[t1].pc = "done"
          /\ task[t2].op = "acquireLock" /\ task[t2].pc = "done"
          /\ task[t1].name = task[t2].name )
        => /\ (task[t1].ret = "true") # (task[t2].ret = "true")
           /\ task[t1].ret = "true"
                => Get(redis, lockKey(task[t1].name)) = instanceId(t1)

C1_Witness ==
    \E t1, t2 \in LockTasks :
        /\ instanceId(t1) # instanceId(t2)
        /\ task[t1].op = "acquireLock" /\ task[t1].pc = "done" /\ task[t1].ret = "true"
        /\ task[t2].op = "acquireLock" /\ task[t2].pc = "done" /\ task[t2].ret = "false"
        /\ task[t1].name = task[t2].name
        /\ Get(redis, lockKey(task[t1].name)) = instanceId(t1)

\* C2: for every job name N, while no lock TTL has elapsed during a job body
\* that is still running, two distinct instances are never inside the body
\* passed to executeWithLock(N, ...) at the same time.
C2_OneInstanceInBody ==
    \A t1, t2 \in TaskId :
        ( /\ instanceId(t1) # instanceId(t2)
          /\ task[t1].pc = "fn" /\ task[t2].pc = "fn"
          /\ task[t1].name = task[t2].name )
        => (task[t1].lapsed \/ task[t2].lapsed)

\* C3: in distributed mode, when the timers of one job fire on several
\* instances for the same cron tick, at most one instance executes the job
\* body for that tick.
C3_OneRunPerTick == \A j \in JobNames : Cardinality(ranBy[j]) <= 1

\* C4 as stated: whenever executeWithLock acquired the lock, releaseLock is
\* invoked exactly once after fn has finished, fn's result or error reaches
\* the caller, and if the instance still held the lock when releaseLock read
\* it, the lock has been removed from the store by this call.
C4_AsStated ==
    \A t \in LockTasks :
        (task[t].op = "executeWithLock" /\ task[t].pc = "done" /\ task[t].hasLock)
        => /\ task[t].relCalls = 1
           /\ task[t].ret = task[t].out
           /\ task[t].heldAtRel => task[t].dels = 1

\* C4 amended: whenever executeWithLock acquired the lock, releaseLock is
\* invoked exactly once, after fn has finished and not before, both when fn
\* returns (its result is returned) and when it throws (the error is
\* rethrown); if the instance still holds the lock when releaseLock reads it
\* and releaseLock's store calls succeed, the lock is removed from the store.
C4_ReleasedOnce ==
    /\ [](\A t \in LockTasks :
            task[t].op = "executeWithLock" =>
              /\ task[t].pc \in AcquirePcs => task[t].fnCalls = 0 /\ task[t].relCalls = 0
              /\ task[t].pc = "fn" => task[t].fnCalls = 1 /\ task[t].relCalls = 0
              /\ task[t].pc \in ReleasePcs =>
                    /\ task[t].fnCalls = 1 /\ task[t].relCalls = 1
                    /\ task[t].out \in {"result", "throw"}
              /\ (task[t].pc = "done" /\ task[t].hasLock) =>
                    /\ task[t].fnCalls = 1 /\ task[t].relCalls = 1
                    /\ task[t].out \in {"result", "throw"}
                    /\ task[t].ret = task[t].out
                    /\ (task[t].heldAtRel /\ ~task[t].relFailed) => task[t].dels = 1)
    /\ [][\A t \in LockTasks :
            (task[t].op = "executeWithLock" /\ task'[t].dels > task[t].dels)
            => Get(redis', lockKey(task[t].name)) = None]_vars

C4_Witness ==
    \E t1, t2 \in LockTasks :
        /\ task[t1].op = "executeWithLock" /\ task[t1].pc = "done"
        /\ task[t1].out = "throw" /\ task[t1].ret = "throw" /\ task[t1].dels = 1
        /\ task[t2].op = "executeWithLock" /\ task[t2].pc = "done"
        /\ task[t2].out = "result" /\ task[t2].ret = "result" /\ task[t2].dels = 1

\* C5: whenever lock acquisition is denied inside executeWithLock (the lock
\* is held by another instance, or a store call failed), fn is never invoked,
\* executeWithLock returns null after that single attempt, releaseLock is not
\* called, and no step of the denied attempt changes the store.
C5_DeniedSkips ==
    /\ [](\A t \in LockTasks :
            (task[t].op = "executeWithLock" /\ task[t].pc = "done")
            => /\ ~task[t].hasLock <=> task[t].ret = "null"
               /\ ~task[t].hasLock =>
                     /\ task[t].fnCalls = 0 /\ task[t].relCalls = 0
                     /\ task[t].attempts = 1 /\ task[t].muts = 0)
    /\ [][\A t \in LockTasks :
            ( /\ task[t].op = "executeWithLock" /\ task[t].pc \in AcquirePcs
              /\ Stepped(t) /\ task'[t].pc # "fn" )
            => redis' = redis]_vars

C5_Witness ==
    \E t \in LockTasks :
        /\ task[t].op = "executeWithLock" /\ task[t].pc = "done"
        /\ task[t].ret = "null" /\ ~task[t].failed
        /\ Get(redis, lockKey(task[t].name)) \in Others(instanceId(t))

\* C6: releaseLock(N) by an instance that is not the holder of N when the
\* lock is read (it is held by another instance, or absent) issues no delete:
\* the store is unchanged by the call and the call returns normally.
C6_NonHolderReleaseIsNoOp ==
    /\ [](\A t \in LockTasks :
            task[t].op = "releaseLock" =>
              /\ task[t].pc = "rel_del" => task[t].heldAtRel
              /\ (task[t].pc = "done" /\ ~task[t].heldAtRel) =>
                    task[t].dels = 0 /\ task[t].muts = 0 /\ task[t].ret = "void")
    /\ [][\A t \in LockTasks :
            ( /\ task[t].op = "releaseLock" /\ task[t].pc = "rel_get" /\ Stepped(t)
              /\ Get(redis, lockKey(task[t].name)) # instanceId(t) )
            => /\ redis' = redis
               /\ task'[t].pc = "done" /\ task'[t].ret = "void"]_vars

C6_Witness ==
    \E t \in LockTasks :
        /\ task[t].op = "releaseLock" /\ task[t].pc = "done"
        /\ ~task[t].heldAtRel /\ ~task[t].failed
        /\ Get(redis, lockKey(task[t].name)) \in Others(instanceId(t))

\* C7: under every interleaving of releaseLock's read and delete with TTL
\* expiry and acquisitions by other instances, the delete of releaseLock(N)
\* issued by instance A never removes an entry for N whose value at that
\* moment is another instance's id.
C7_NeverDeletesAnothersLock ==
    [][\A t \in LockTasks :
          (task[t].pc = "rel_del" /\ Stepped(t) /\ redis' # redis)
          => Get(redis, lockKey(task[t].name)) \notin Others(instanceId(t))]_vars

\* C8: when the re-entrant path of acquireLock(N, ttl) returns true, the
\* store's entry for N does not name a different instance and no entry owned
\* by a different instance has had its TTL extended; when the caller still
\* holds N, the entry keeps its holder and its TTL is reset to ttl.
C8_ReentrantOnlyForHolder ==
    [][\A t \in LockTasks :
          ( /\ task[t].pc = "acq_pexpire" /\ Stepped(t)
            /\ (task'[t].ret = "true" \/ task'[t].pc = "fn") )
          => /\ Get(redis, lockKey(task[t].name)) \notin Others(instanceId(t))
             /\ Get(redis, lockKey(task[t].name)) = instanceId(t)
                  => redis'[lockKey(task[t].name)]
                       = [val |-> instanceId(t), ttl |-> task[t].ttl]]_vars

\* C9: when a coordination-store call fails, acquireLock returns false,
\* isLeader returns false, releaseLock returns normally and
\* getActiveInstances returns an empty list; none of them propagates the
\* exception, and executeWithLock does not run fn when its acquisition failed.
C9_FailuresAreNegative ==
    \A t \in LockTasks :
        task[t].pc = "done" =>
          /\ task[t].ret = "throw" =>
                task[t].op = "executeWithLock" /\ task[t].out = "throw"
          /\ task[t].failed =>
                /\ task[t].op = "acquireLock" => task[t].ret = "false"
                /\ task[t].op = "isLeader" => task[t].ret = "false"
                /\ task[t].op = "releaseLock" => task[t].ret = "void"
                /\ task[t].op = "getActiveInstances" =>
                      task[t].ret = "list" /\ task[t].list = {}
                /\ (task[t].op = "executeWithLock" /\ ~task[t].hasLock) =>
                      task[t].ret = "null" /\ task[t].fnCalls = 0

C9_Witness ==
    \E t1, t2 \in LockTasks :
        /\ task[t1].op = "getActiveInstances" /\ task[t1].pc = "done"
        /\ task[t1].failed /\ InstanceKeys(redis) # {}
        /\ task[t2].op = "acquireLock" /\ task[t2].pc = "done"
        /\ task[t2].failed /\ Get(redis, lockKey(task[t2].name)) = None

\* C10: in leader mode at most one instance has scheduled timers (per-store
\* timers or the sweep timer), and that instance is the one whose id is the
\* current value of the leadership token.
C10_OnlyLeaderHasTimers ==
    \A i \in Inst :
        (cronJobs[i] # {} \/ realtimeCheckJob[i]) => Get(redis, leaderKey) = i

HasTimers(i) == cronJobs[i] # {} \/ realtimeCheckJob[i]

\* C11: in leader mode, whenever an instance that has scheduled timers is not
\* the holder of the leadership token (the token expired or is held by
\* another instance), all of its per-store timers and its sweep timer are
\* eventually stopped.
C11_LostLeadershipStopsTimers ==
    \A i \in Inst :
        (HasTimers(i) /\ Get(redis, leaderKey) # i) ~> ~HasTimers(i)

\* the instance leads through its poll and holds every timer
LeadsWithTimers(k) ==
    /\ polling[k]
    /\ Get(redis, leaderKey) = k
    /\ cronJobs[k] = ActiveStores
    /\ realtimeCheckJob[k]

\* C12: in leader mode, when an instance is alive, connected and polling
\* (the leader having crashed or stopped renewing the token lets the token
\* expire), eventually a polling instance is leader and has a timer for
\* every active store plus the sweep timer.
C12_PollingInstanceTakesOver ==
    \A j \in Inst : polling[j] ~> (\E k \in Inst : LeadsWithTimers(k))

C12_Witness ==
    \E j, k \in Inst :
        /\ j # k
        /\ started[j] /\ ~polling[j] /\ HasTimers(j)
        /\ LeadsWithTimers(k)

LeadPcs == {"lead_set", "lead_get", "lead_pexpire"}
\* the step in which the isLeader call of task t returns, no expiry of the
\* token having happened since its SET
LeaderAnswers(t) ==
    /\ task[t].op = "isLeader" /\ task[t].pc \in LeadPcs
    /\ task'[t].pc = "done" /\ ~task'[t].lapsed
\* the effect of an isLeader call on the store, by its answer
LeaderEffect(t) ==
    /\ task'[t].ret \in {"true", "false"}
    /\ task'[t].ret = "true" =>
          redis' = [redis EXCEPT ![leaderKey] = [val |-> instanceId(t), ttl |-> leaderTTL]]
    /\ task'[t].ret = "false" => redis' = redis
\* no two returned isLeader calls of distinct instances, with no expiry of the
\* token since the earlier one, have both answered true
OneLeaderAnswer ==
    \A t1, t2 \in LockTasks :
        ( /\ instanceId(t1) # instanceId(t2)
          /\ task[t1].op = "isLeader" /\ task[t1].pc = "done" /\ ~task[t1].lapsed
          /\ task[t2].op = "isLeader" /\ task[t2].pc = "done" /\ ~task[t2].lapsed )
        => ~(task[t1].ret = "true" /\ task[t2].ret = "true")

\* C13 as stated: two isLeader calls by distinct instances with no token
\* expiry between them never both return true: isLeader returns true exactly
\* when the token was absent (it is then set to the caller's id with a 30 s
\* TTL) or already holds the caller's id (its TTL is then extended to 30 s),
\* and returns false, leaving the token unchanged, when the token holds
\* another instance's id.
C13_AsStated ==
    /\ []OneLeaderAnswer
    /\ [][\A t \in LockTasks :
            LeaderAnswers(t) =>
              /\ task'[t].ret = "true" <=> Get(redis, leaderKey) \in {None, instanceId(t)}
              /\ LeaderEffect(t)]_vars

\* C13 amended: the same, for isLeader calls whose store calls succeed; an
\* isLeader call with a failed store call returns false and leaves the token
\* unchanged, whatever the token holds.
C13_OneLeaderAnswer ==
    /\ []OneLeaderAnswer
    /\ [][\A t \in LockTasks :
            LeaderAnswers(t) =>
              /\ task'[t].ret = "true" <=>
                    (~task'[t].failed /\ Get(redis, leaderKey) \in {None, instanceId(t)})
              /\ LeaderEffect(t)]_vars

C13_Witness ==
    \E t1, t2 \in LockTasks :
        /\ instanceId(t1) # instanceId(t2)
        /\ task[t1].op = "isLeader" /\ task[t1].pc = "done" /\ ~task[t1].lapsed
        /\ task[t1].ret = "true" /\ task[t1].muts = 1
        /\ task[t2].op = "isLeader" /\ task[t2].pc = "done" /\ ~task[t2].lapsed
        /\ task[t2].ret = "false" /\ ~task[t2].failed
        /\ redis[leaderKey] = [val |-> instanceId(t1), ttl |-> leaderTTL]

\* the timers of instance i that were created for key and not stopped
Live(i, key) == {x \in timers[i] : x.key = key}

\* C14: after any sequence of initialize, scheduleReactivationForStore,
\* updateStoreReactivationTime and stopJobForStore calls on one engine
\* instance, each store id has at most one non-stopped timer, it is the timer
\* created by the most recent scheduling call for that id, and every earlier
\* timer for that id has been stopped.
C14_OneTimerPerStore ==
    \A i \in Inst, id \in StoreIds :
        /\ Cardinality(Live(i, id)) <= 1
        /\ \A x \in Live(i, id) : x.latest
        /\ Live(i, id) # {} => id \in cronJobs[i]

C14_Witness ==
    \E i \in SchedInst, t \in SchedTasks, id \in StoreIds :
        /\ instanceId(t) = i
        /\ task[t].op = "updateStoreReactivationTime" /\ task[t].pc = "done"
        /\ task[t].name = id /\ task[t].stops = 1 /\ task[t].sched = 1
        /\ stores[id].isActive
        /\ Live(i, id) = {Timer(id, CronExpression(30, 6), DefaultZone)}

\* task t takes a step of its call
Moved(t) == task'[t].pc # task[t].pc

\* a direct run of the job body by task t has returned without a failed
\* database call, and no disabledUntil has been reached since its find
RanBody(t) ==
    /\ task[t].op = "reactivateIngredients" /\ task[t].pc = "done"
    /\ ~task[t].failed /\ ~task[t].lapsed

\* C15: running the reactivation job body (per-store job or sweep) twice in
\* immediate succession on the same data leaves the same ingredient state as
\* running it once: after a run nothing in its scope is left to select, and
\* a run that finds no eligible ingredient returns with no write.
C15_SecondRunIsNoOp ==
    /\ [](\A t \in LockTasks : RanBody(t) => Eligible(ingredients, task[t].name) = {})
    /\ [][\A t \in LockTasks :
            ( /\ task[t].pc = "body" /\ Moved(t) /\ ~task'[t].failed
              /\ Eligible(ingredients, task[t].name) = {} )
            => /\ ingredients' = ingredients
               /\ task'[t].pc = "done" /\ task'[t].saves = 0 /\ task'[t].found = {}]_vars

C15_Witness ==
    \E t1, t2 \in LockTasks :
        /\ t1 # t2 /\ RanBody(t1) /\ RanBody(t2)
        /\ task[t1].name = task[t2].name
        /\ task[t1].found # {} /\ task[t1].saves = 1
        /\ task[t2].found = {} /\ task[t2].saves = 0

\* the ingredients of the scope of job `name` that are unavailable with a
\* disabledUntil at or before now
Due(name) ==
    {id \in IngId :
        /\ name # "realtime" => ingredients[id].storeId = name
        /\ ingredients[id].isAvailable = FALSE
        /\ ingredients[id].disabledUntil \in 0..0}

\* C16: after reactivateIngredientsForStore(S) runs at time now without
\* error, every ingredient of store S that had isAvailable = false and
\* disabledUntil <= now has isAvailable = true and disabledUntil cleared; the
\* same holds for the ingredients of all stores after one run of the sweep.
C16_DueIngredientsReactivated ==
    /\ [][\A t \in LockTasks :
            (task[t].pc = "body" /\ Moved(t) /\ ~task'[t].failed)
            => IF Due(task[t].name) = {} THEN task'[t].pc = "done"
               ELSE task'[t].pc = "save" /\ task'[t].found = Due(task[t].name)]_vars
    /\ [][\A t \in LockTasks :
            (task[t].pc = "save" /\ Moved(t) /\ ~task'[t].failed)
            => /\ task'[t].pc = "done" /\ task'[t].ret = "void"
               /\ \A id \in task[t].found :
                     /\ ingredients'[id].isAvailable = TRUE
                     /\ ingredients'[id].disabledUntil = NoDate]_vars

C16_Witness ==
    \E t1, t2 \in LockTasks :
        /\ t1 # t2 /\ RanBody(t1) /\ RanBody(t2)
        /\ task[t1].name = "realtime" /\ task[t1].found = IngId /\ task[t1].saves = 1
        /\ ingredients["a"].storeId # ingredients["b"].storeId
        /\ task[t2].name \in StoreIds /\ task[t2].found # {} /\ task[t2].saves = 1
        /\ \A id \in IngId :
              ingredients[id].isAvailable /\ ingredients[id].disabledUntil = NoDate

\* the ingredients a run of job `name` must leave alone
OutOfReach(id, name) ==
    \/ ingredients[id].disabledUntil > 0
    \/ ingredients[id].isAvailable = FALSE /\ ingredients[id].disabledUntil = NoDate
    \/ ingredients[id].isAvailable = TRUE
    \/ name # "realtime" /\ ingredients[id].storeId # name

\* C17: a reactivation run (per-store job or sweep) leaves unchanged every
\* ingredient whose disabledUntil is in the future, every unavailable
\* ingredient that has no disabledUntil, every ingredient that is already
\* available, and, for the per-store job of store S, every ingredient of a
\* store other than S.
C17_OthersUntouched ==
    [][\A t \in LockTasks :
          (task[t].op = "reactivateIngredients" /\ Moved(t))
          => \A id \in IngId :
                OutOfReach(id, task[t].name) => ingredients'[id] = ingredients[id]]_vars

C17_Witness ==
    \E t \in LockTasks :
        /\ RanBody(t) /\ task[t].name \in StoreIds
        /\ task[t].found = {"a"} /\ task[t].saves = 1
        /\ ingredients["a"].isAvailable
        /\ ingredients["b"] = Ingredient(task[t].name, FALSE, MaxDue)

\* a part of a time string is numeric when it is a non-empty string of digits
Numeric(part) == part # <<>> /\ \A n \in 1..Len(part) : part[n] \in Digits
RECURSIVE Decimal(_)
Decimal(part) ==
    IF part = <<>> THEN 0
    ELSE 10 * Decimal(SubSeq(part, 1, Len(part) - 1)) + DigitValue(part[Len(part)])

\* the schedule the claim gives a custom time: minute M of hour H for "H:M"
\* in range, 00:00 for a time that is not set or has a non-numeric part, an
\* hour outside 0..23 or a minute outside 0..59
Claimed(time, expr) ==
    LET parts == Split(time)
    IN  IF time = <<>> THEN expr = CronExpression(0, 0)
        ELSE IF \E n \in 1..Len(parts) : ~Numeric(parts[n])
        THEN expr = CronExpression(0, 0)
        ELSE IF Decimal(parts[1]) > 23 THEN expr = CronExpression(0, 0)
        ELSE IF Len(parts) >= 2 /\ Decimal(parts[2]) > 59 THEN expr = CronExpression(0, 0)
        ELSE Len(parts) = 2 => expr = CronExpression(Decimal(parts[2]), Decimal(parts[1]))

\* C18: for every store, the schedule built by scheduleReactivationForStore
\* fires daily at minute M of hour H when the store's custom time is "HH:MM"
\* with H in 0..23 and M in 0..59, and fires daily at 00:00 when no custom
\* time is set or when the custom time is invalid (a non-numeric part, hour
\* outside 0..23, or minute outside 0..59).
C18_ScheduleFollowsCustomTime ==
    \A i \in Inst, id \in Stores :
        \A x \in Live(i, id) : Claimed(stores[id].ingredientReactivationTime, x.expr)

\* instance i has exactly one timer for each active store, exactly one sweep
\* timer and no timer for an inactive store, and its job map says the same
TimersOfActiveStores(i) ==
    /\ \A s \in StoreIds :
          /\ Cardinality(Live(i, s)) = IF stores[s].isActive THEN 1 ELSE 0
          /\ s \in cronJobs[i] <=> stores[s].isActive
    /\ Cardinality(Live(i, "realtime")) = 1
    /\ realtimeCheckJob[i]

N == Cardinality({s \in StoreIds : stores[s].isActive})

\* the timers the step of task t by which initialize() loads the stores
\* creates, and the timers a shutdown() stops that is called while the
\* instance holds the timers initialize() created, are both n
TimersCreatedAndStopped(t, n) ==
    /\ (task[t].op = "initialize" /\ Find(t, TRUE)) => task'[t].sched = n
    /\ (CallShutdown(t) /\ TimersOfActiveStores(instanceId(t))) => task'[t].stops = n

AnswersNotLeader(t) ==
    \/ LeadSet(t, FALSE)
    \/ LeadGet(t, FALSE)
    \/ LeadPExpire(t, FALSE)
    \/ LeadGet(t, TRUE) /\ ~OwnsKey(Get(redis, leaderKey), instanceId(t))

\* C21: When initialize() runs in leader mode and the leadership check returns
\* false, the instance does not load stores and creates no per-store or sweep
\* timer during initialize; it only starts the periodic leadership poll.
C21_NonLeaderOnlyPolls ==
    [][\A t \in TaskId :
          (task[t].op = "initialize" /\ AnswersNotLeader(t))
             => /\ task'[t].pc = "done" /\ task'[t].ret = "void"
                /\ task'[t].sched = 0
                /\ ~HasTimers(instanceId(t))'
                /\ timers'[instanceId(t)] = {}
                /\ polling'[instanceId(t)]]_vars

\* initialize() has returned on a non-leader while another instance holds the
\* token: the poll is set and the instance has no timer
C21_Witness ==
    \E t \in TaskId :
        /\ mode = "leader"
        /\ task[t].op = "initialize" /\ task[t].pc = "done" /\ ~task[t].failed
        /\ redis[leaderKey].val \in Others(instanceId(t))
        /\ polling[instanceId(t)] /\ ~HasTimers(instanceId(t))

\* C22: initialize() never throws: if connecting to the coordination store
\* fails, the error is swallowed, initialize() resolves normally, and the
\* instance has no timer scheduled.
C22_InitializeNeverThrows ==
    [][\A t \in TaskId :
          task[t].op = "initialize" =>
             /\ (Moved(t) /\ task'[t].pc = "done") => task'[t].ret = "void"
             /\ Connect(t, FALSE) =>
                   /\ task'[t].pc = "done" /\ task'[t].ret = "void"
                   /\ ~HasTimers(instanceId(t))'
                   /\ timers'[instanceId(t)] = {}
                   /\ ~polling'[instanceId(t)] /\ ~heartbeat'[instanceId(t)]]_vars

\* initialize() has returned after a failed connect(), before anything was
\* written to the store by the instance
C22_Witness ==
    \E t \in TaskId :
        /\ task[t].op = "initialize" /\ task[t].pc = "done" /\ task[t].ret = "void"
        /\ task[t].failed /\ task[t].muts = 0
        /\ redis[instanceKey(instanceId(t))] = Absent
        /\ ~heartbeat[instanceId(t)] /\ ~polling[instanceId(t)]
        /\ ~HasTimers(instanceId(t))

ZoneAfter(rec, row) ==
    IF rec.zone # None THEN rec.zone
    ELSE IF row.timezone # None THEN row.timezone ELSE DefaultZone

\* C24: updateStoreReactivationTime(id, time, timezone?) on an existing store
\* first persists the new time (and the timezone when given) and only after
\* the save has succeeded replaces that store's timer, so that on return the
\* instance's single timer for the store uses the new time and timezone.
C24_SavedThenRescheduled ==
    [][\A t \in TaskId :
          LET i == instanceId(t)
              id == task[t].name
          IN  /\ UpdSave(t, TRUE) =>
                    /\ task'[t].pc = "done" /\ task'[t].ret = "void"
                    /\ stores'[id].ingredientReactivationTime = task[t].time
                    /\ task[t].zone # None => stores'[id].timezone = task[t].zone
                    /\ \E x \in timers'[i] :
                          /\ {y \in timers'[i] : y.key = id} = {x}
                          /\ Claimed(task[t].time, x.expr)
                          /\ x.tz = ZoneAfter(task[t], stores'[id])
              /\ (task[t].op = "updateStoreReactivationTime" /\ Moved(t)
                    /\ ~UpdSave(t, TRUE))
                    => timers'[i] = timers[i]]_vars

\* a call with "23:09" and a timezone has returned after replacing the timer
\* the store had
C24_Witness ==
    \E t \in SchedTasks, id \in StoreIds :
        /\ task[t].op = "updateStoreReactivationTime" /\ task[t].pc = "done"
        /\ task[t].ret = "void" /\ task[t].name = id /\ task[t].stops = 1
        /\ task[t].zone = "Europe/London"
        /\ stores[id].timezone = "Europe/London"
        /\ Live(instanceId(t), id) = {Timer(id, CronExpression(9, 23), "Europe/London")}

\* the step in which the update call of task t fails: the lookup or the save
\* fails, or the lookup finds no store
UpdateFails(t) ==
    \/ UpdFind(t, FALSE)
    \/ UpdFind(t, TRUE) /\ task[t].name \notin DOMAIN stores
    \/ UpdSave(t, FALSE)

\* C25: updateStoreReactivationTime on an unknown store id rejects with the
\* error "Store <id> not found"; in that case, and whenever the lookup or the
\* save fails, the error is rethrown to the caller and neither the persisted
\* configuration nor any scheduled timer is changed.
C25_FailedUpdateChangesNothing ==
    [][\A t \in TaskId :
          UpdateFails(t) =>
             /\ task'[t].pc = "done" /\ task'[t].ret = "throw"
             /\ task'[t].error =
                   IF task'[t].failed THEN <<"database error">>
                   ELSE <<"Store ", task[t].name, " not found">>
             /\ UNCHANGED <<stores, timers, cronJobs, realtimeCheckJob>>]_vars

\* a call for an unknown store has been rejected, and so has a call whose save
\* failed, on an instance that holds a timer
C25_Witness ==
    \E t, u \in SchedTasks :
        /\ task[t].op = "updateStoreReactivationTime" /\ task[t].ret = "throw"
        /\ task[t].name = UnknownStore /\ task[t].error = StoreNotFound(UnknownStore)
        /\ task[u].op = "updateStoreReactivationTime" /\ task[u].ret = "throw"
        /\ task[u].name \in StoreIds /\ task[u].failed
        /\ timers[instanceId(t)] # {}

\* C26: reactivateAllStores() runs the same reactivation body once for every
\* active store without acquiring, extending or releasing any lock (the
\* coordination store is left unchanged by it), and resolves normally even if
\* loading the stores or any single store's run fails.
C26_ManualRunBypassesLocks ==
    [][\A t \in TaskId :
          (task[t].op = "reactivateAllStores" /\ Stepped(t)) =>
             /\ redis' = redis
             /\ task'[t].pc = "done" =>
                   /\ task'[t].ret = "void"
                   /\ task[t].pc = "all_find" /\ task'[t].failed
                         => ingredients' = ingredients
                   /\ ~task'[t].failed =>
                         \A s \in StoreIds :
                            task'[t].runs[s] \in {"done", "failed"} <=> stores[s].isActive
             /\ \A id \in IngId :
                   ingredients'[id] # ingredients[id] =>
                      /\ stores[ingredients[id].storeId].isActive
                      /\ ~ingredients[id].isAvailable /\ ingredients[id].disabledUntil = 0
                      /\ ingredients'[id] = Ingredient(ingredients[id].storeId, TRUE, NoDate)]_vars

\* a call has returned normally with the run of one store failed and the run
\* of the other done, while another instance's lock on that store stayed held
C26_Witness ==
    \E t \in SchedTasks, s, u \in StoreIds :
        /\ task[t].op = "reactivateAllStores" /\ task[t].pc = "done"
        /\ task[t].ret = "void"
        /\ task[t].runs[s] = "failed" /\ task[t].runs[u] = "done" /\ task[t].saves = 1
        /\ redis[lockKey("s1")].val = "i2"

\* C27: A database failure inside a job body (per-store job or sweep) is
\* caught inside the body: the body resolves, the timer callback does not
\* reject, the lock taken for that firing is released, the timer stays
\* scheduled, and the next firing attempts the job again.
C27_BodyFailureStaysInside ==
    [][\A t \in TaskId, j \in JobNames :
          (task[t].op = "fire" /\ task[t].name = j) =>
             /\ (BodyFind(t, FALSE) \/ BodySave(t, FALSE)) =>
                   /\ task'[t].pc = "rel_get" /\ task'[t].out = "result"
                   /\ ingredients' = ingredients
                   /\ redis[lockKey(j)].val = instanceId(t)
             /\ (task[t].failed /\ task'[t].op = "none") =>
                   /\ task[t].out = "result"
                   /\ redis'[lockKey(j)].val = None
                   /\ HasTimer(instanceId(t), j)' /\ Live(instanceId(t), j)' # {}
                   /\ timers' = timers]_vars

\* the callback of a firing whose body failed is about to release the lock it
\* holds, in a cron tick in which the other instance has already fired
C27_Witness ==
    \E t \in LockTasks :
        /\ task[t].op = "fire" /\ task[t].failed /\ task[t].pc = "rel_del"
        /\ task[t].out = "result"
        /\ redis[lockKey(task[t].name)].val = instanceId(t)
        /\ fired[task[t].name] = Inst

\* C28: During job initialization, a failure to build or register the schedule
\* of one store (for example a timezone the scheduler rejects) does not
\* prevent the timers of the other active stores and the sweep timer from
\* being created.
C28_OtherStoresStillScheduled ==
    [][\A t \in TaskId, bad \in StoreIds, before \in SUBSET StoreIds :
          FindThrows(t, bad, before) =>
             /\ \A s \in StoreIds \ {bad} :
                   stores[s].isActive => Live(instanceId(t), s)' # {}
             /\ Live(instanceId(t), "realtime")' # {}]_vars

\* the instance registry: registerInstance and getActiveInstances called
\* directly, with the refresh interval running once per 30 s and store calls
\* that may fail
NextBeat ==
    \/ \E t \in LockTasks : CallRegisterInstance(t)
    \/ \E t \in LockTasks : CallGetActiveInstances(t)
    \/ \E t \in LockTasks, ok \in BOOLEAN : RegSet(t, ok)
    \/ \E t \in LockTasks, ok \in BOOLEAN : KeysStep(t, ok)
    \/ \E i \in Inst, isOpen \in BOOLEAN, ok \in BOOLEAN : Beat(i, isOpen, ok)
    \/ BeatTick

SpecBeat == Init /\ [][NextBeat]_vars

\* C29: an instance whose registerInstance set the refresh interval and whose
\* refresh of the current period was answered by the store (so the process is
\* alive and connected) has its instance record present
C29_LiveInstanceIsListed ==
    \A i \in Inst :
        heartbeat[i] /\ beat[i] = "done" => redis[instanceKey(i)].val # None

\* two runs of the job body over one table, each started once, with any names
\* (the same store twice, a store and the sweep, two stores): every ingredient
\* is disabled with a date that is due or still to come, the database answers
\* or fails, and time passes
InitTwoRuns ==
    /\ InitCommon
    /\ stores = [s \in StoreIds |->
                   [isActive |-> s \in Stores, ingredientReactivationTime |-> <<>>,
                    timezone |-> None]]
    /\ ingredients \in [IngId -> [storeId : StoreIds, isAvailable : {FALSE},
                                  disabledUntil : 0..MaxDue]]
    /\ mode = "distributed"

NextTwoRuns ==
    \/ \E t \in LockTasks, name \in JobNamesRun :
          task[t].pc = "idle" /\ CallReactivateIngredients(t, name)
    \/ \E t \in LockTasks, ok \in BOOLEAN : BodyFind(t, ok)
    \/ \E t \in LockTasks, ok \in BOOLEAN : BodySave(t, ok)
    \/ Tick

SpecTwoRuns == InitTwoRuns /\ [][NextTwoRuns]_vars

\* run t has returned without a database failure
RunDone(t) ==
    task[t].op = "reactivateIngredients" /\ task[t].pc = "done" /\ ~task[t].failed

\* the scope of run w includes the scope of run t
Covers(w, t) == task[w].name = "realtime" \/ task[w].name = task[t].name

\* the table as it would be now had no run written to it: in SpecTwoRuns a
\* row is available only once a run has written it, and it was due then
Untouched(rows) ==
    [id \in IngId |->
        IF rows[id].isAvailable
        THEN Ingredient(rows[id].storeId, FALSE, 0) ELSE rows[id]]

\* the table one run named `name`, reading and writing now, makes of rows
SingleRun(rows, name) ==
    [id \in IngId |->
        IF /\ name = "realtime" \/ rows[id].storeId = name
           /\ ~rows[id].isAvailable
           /\ rows[id].disabledUntil = 0
        THEN Ingredient(rows[id].storeId, TRUE, NoDate) ELSE rows[id]]

\* C30: once two runs over the same data (the same job twice, or a store's job
\* and the sweep) have both returned, however their reads and writes were
\* interleaved, the rows that are available with no date are exactly the rows
\* the runs read as due and every other row is as it was; and when no date
\* has come nearer since the read of the run with the wider scope, the table
\* is the one a single run of that job reaches
C30_InterleavedRunsConverge ==
    \A t1, t2 \in LockTasks :
        (t1 # t2 /\ RunDone(t1) /\ RunDone(t2) /\ (Covers(t1, t2) \/ Covers(t2, t1))) =>
            /\ \A id \in IngId :
                  IF id \in task[t1].found \cup task[t2].found
                  THEN /\ ingredients[id].isAvailable
                       /\ ingredients[id].disabledUntil = NoDate
                  ELSE /\ ~ingredients[id].isAvailable
                       /\ ingredients[id].disabledUntil \in 0..MaxDue
            /\ \A w \in {t1, t2} :
                  (~task[w].lapsed /\ \A t \in {t1, t2} : Covers(w, t)) =>
                      ingredients = SingleRun(Untouched(ingredients), task[w].name)

\* two runs have read the same due row before either wrote it, both have
\* written it and returned, and a row out of their reach is left disabled
C30_Witness ==
    \E t1, t2 \in LockTasks :
        /\ t1 # t2 /\ RunDone(t1) /\ RunDone(t2)
        /\ task[t1].name = "s1" /\ task[t2].name = "realtime"
        /\ task[t1].found \cap task[t2].found # {}
        /\ task[t1].saves = 1 /\ task[t2].saves = 1
        /\ ~task[t2].lapsed
        /\ \E id \in IngId : ~ingredients[id].isAvailable

\* two callback slots on the first instance and one on the second
ExpiryTasks == {t \in TaskId : t[1] = "i1" \/ t[2] = 1}

\* the sweep timer firing on every instance with a store whose release calls
\* fail or answer. A callback may stop for good at any await before its release (the
\* process crashed, or the call never settles); time keeps passing, and a
\* store that keeps answering the acquisitions of an instance answers its
\* release in the end
NextExpiry ==
    \/ \E j \in DistJobs : CronTick(j)
    \/ \E t \in ExpiryTasks, j \in DistJobs : Fire(t, j)
    \/ \E t \in ExpiryTasks : AcqSet(t, TRUE)
    \/ \E t \in ExpiryTasks : AcqGet(t, TRUE)
    \/ \E t \in ExpiryTasks : AcqPExpire(t, TRUE)
    \/ \E t \in ExpiryTasks : FnEnd(t, "result")
    \/ \E t \in ExpiryTasks, ok \in BOOLEAN : RelGet(t, ok)
    \/ \E t \in ExpiryTasks, ok \in BOOLEAN : RelDel(t, ok)
    \/ Tick

SpecExpiry ==
    /\ InitDist
    /\ [][NextExpiry]_vars
    /\ WF_vars(Tick)
    /\ \A t \in ExpiryTasks : SF_vars(RelGet(t, TRUE)) /\ SF_vars(RelDel(t, TRUE))

C32_RefreshFailureIsCaught ==
    \A i \in Inst : beat[i] # "rejected"

\* the engine of SpecBody with the timers of the first instance being stopped
\* meanwhile: a store's timer is stopped or replaced, or the instance shuts down
\* (on its second slot) while callbacks are in flight; the GET of a release
\* fails once the client is disconnected
NextStop ==
    \/ \E j \in JobNames : CronTick(j)
    \/ \E t \in LockTasks, j \in JobNames : Fire(t, j)
    \/ \E t \in LockTasks : AcqSet(t, TRUE)
    \/ \E t \in LockTasks : AcqGet(t, TRUE)
    \/ \E t \in LockTasks : BodyFind(t, TRUE)
    \/ \E t \in LockTasks : BodySave(t, TRUE)
    \/ \E t \in LockTasks : FnEnd(t, "result")
    \/ \E t \in LockTasks, ok \in BOOLEAN : RelGet(t, ok)
    \/ \E t \in LockTasks : RelDel(t, TRUE)
    \/ \E i \in SchedInst, id \in Stores : scheduleReactivationForStore(i, id)
    \/ \E i \in SchedInst, id \in Stores : stopJobForStore(i, id)
    \/ \E t \in SchedTasks \ LockTasks : CallShutdown(t)
    \/ \E t \in SchedTasks \ LockTasks : Disconnect(t, TRUE)

SpecStop == InitBody /\ [][NextStop]_vars

\* instance i has a timer for job j that was created and not stopped
Running(i, j) == \E x \in timers[i] : x.key = j

\* the callback of task t is past its lock acquisition, inside the job body
InBody(rec) == rec.op = "fire" /\ rec.pc \in {"fn", "save"}

\* C33: a callback of job j starts on an instance only while the instance has
\* a timer for j that was not stopped, and the step that stops a timer
\* changes nothing of a callback in flight, which goes on from where it was
C33_StoppedTimerFiresNoMore ==
    [][\A t \in TaskId :
          /\ (task[t].op # "fire" /\ task'[t].op = "fire") =>
                 Running(instanceId(t), task'[t].name)
          /\ (task[t].op = "fire" /\ \E j \in JobNames :
                    Running(instanceId(t), j) /\ ~Running(instanceId(t), j)') =>
                 task'[t] = task[t]]_vars

\* the timer of a job was stopped while a callback of that job, holding the
\* lock, was inside the body: the callback is about to write
C33_Witness ==
    \E t \in TaskId :
        /\ InBody(task[t]) /\ task[t].pc = "save"
        /\ redis[lockKey(task[t].name)].val = instanceId(t)
        /\ ~Running(instanceId(t), task[t].name)

\* C34: in leader mode the token of an instance that leads since its
\* initialize(), has its timers and has no call pending is still that
\* instance's after any step, the passing of 30 s included
C34_LeaderKeepsToken ==
    [][\A i \in Inst :
          (/\ mode = "leader" /\ started[i] /\ ~polling[i]
           /\ realtimeCheckJob[i]
           /\ \A s \in Slot : Free(<<i, s>>)
           /\ Get(redis, leaderKey) = i) =>
              Get(redis', leaderKey) = i]_vars

\* C35: in leader mode, when a poll callback returns straight after its
\* isLeader() and the token is not the instance's (so isLeader() answered
\* false), the instance has no per-store timer and no sweep timer
C35_NonLeaderPollLeavesNoTimer ==
    [][\A t \in TaskId :
          (/\ task[t].op = "poll" /\ task[t].pc \in LeadPcs
           /\ task'[t].pc = "idle"
           /\ Get(redis', leaderKey) # instanceId(t)) =>
              /\ cronJobs'[instanceId(t)] = {}
              /\ ~realtimeCheckJob'[instanceId(t)]
              /\ timers'[instanceId(t)] = {}]_vars

\* C36: on one instance at most one callback is inside the body passed to
\* executeWithLock for a job name, and while a callback is inside it with no
\* lock TTL elapsed since it began the lock of that job is the instance's
C36_OneBodyPerInstance ==
    \A i \in Inst, s1, s2 \in Slot :
        LET t1 == <<i, s1>>
            t2 == <<i, s2>>
        IN  /\ (/\ s1 # s2
                /\ task[t1].op = "fire" /\ task[t1].pc = "fn"
                /\ task[t2].op = "fire" /\ task[t2].pc = "fn") =>
                    task[t1].name # task[t2].name
            /\ (task[t1].op = "fire" /\ task[t1].pc = "fn" /\ ~task[t1].lapsed) =>
                    Get(redis, lockKey(task[t1].name)) = i

\* C37: when shutdown() has returned on an instance that has no timer, the
\* step in which an initialize() or a poll callback still in progress leaves
\* its store query creates no timer on that instance
C37_NoTimerAfterShutdown ==
    [][\A t \in TaskId :
          (/\ task[t].op \in {"initialize", "poll"}
           /\ task[t].pc = "find" /\ task'[t].pc # "find"
           /\ \E s \in Slot : /\ task[<<instanceId(t), s>>].op = "shutdown"
                               /\ task[<<instanceId(t), s>>].pc = "done"
           /\ timers[instanceId(t)] = {}) =>
              /\ timers'[instanceId(t)] = {}
              /\ cronJobs'[instanceId(t)] = {}
              /\ ~realtimeCheckJob'[instanceId(t)]]_vars

\* the cluster in distributed mode once initialize() has completed on every
\* instance, every instance holding a timer per active store, with
\* updateStoreReactivationTime called on the first instance
SpecCluster == InitDist /\ [][NextUpdate]_vars

\* C38: in distributed mode, once an updateStoreReactivationTime call for a
\* store has returned on one instance, the timer every instance holds for
\* that store has the expression of the stored reactivation time
C38_NewScheduleOnEveryInstance ==
    \A t \in TaskId :
        (/\ task[t].op = "updateStoreReactivationTime"
         /\ task[t].pc = "done" /\ task[t].ret = "void") =>
            \A i \in Inst : \A x \in timers[i] :
                x.key = task[t].name =>
                    x.expr = buildCronExpression(
                                 getReactivationTime(stores[task[t].name]))

\* the runs of SpecTwoRuns beside the business layer, which disables an
\* ingredient until a date to come at any moment
NextDisable ==
    \/ \E t \in LockTasks, name \in JobNamesRun :
          task[t].pc = "idle" /\ CallReactivateIngredients(t, name)
    \/ \E t \in LockTasks, ok \in BOOLEAN : BodyFind(t, ok)
    \/ \E t \in LockTasks, ok \in BOOLEAN : BodySave(t, ok)
    \/ Tick
    \/ \E id \in IngId, until \in 1..MaxDue : disableIngredient(id, until)

SpecDisable == InitTwoRuns /\ [][NextDisable]_vars

\* C39: no step makes available an ingredient whose disabledUntil is, at that
\* moment, a date to come
C39_FutureDisableIsKept ==
    [][\A id \in IngId :
          (~ingredients[id].isAvailable /\ ingredients[id].disabledUntil > 0) =>
              ~ingredients'[id].isAvailable]_vars

====
